---- MODULE Spec2Model ----
(***************************************************************************)
(* schema-object: a schema-driven object whose field writes are type-cast  *)
(* and validated, whose rejected writes are logged on the instance, and    *)
(* which nests schema-typed objects and typed arrays.                      *)
(*                                                                         *)
(* The model follows the ES6 build of the library (the second copy in      *)
(* src/unnamed/part_000, lines 1705-3045).                                 *)
(*                                                                         *)
(* JavaScript values are tagged records:                                   *)
(*   undefined, null, boolean b, number n (integers), NaN, string s (a     *)
(*   sequence of one-character strings), array a (a plain list), object o  *)
(*   (a plain object: its entries [k, v] in insertion order), date sec /   *)
(*   Invalid Date, regexp, a factory function, and the two library         *)
(*   classes SchemaArray (list a) and SchemaObject (raw store obj, error   *)
(*   log errors).  A nested instance or a wrapper is held in place in its  *)
(*   owner's raw store: the code never replaces either once materialized   *)
(*   (typecast copies into the existing one), so its identity is the path  *)
(*   that leads to it.                                                     *)
(***************************************************************************)
EXTENDS Integers, Sequences, FiniteSets, TLC

VARIABLES
    schemas,   \* factory name -> compiled schema (index -> Field Descriptor), shared by all instances
    inst,      \* the instance under observation: [obj |-> raw value store, errors |-> error log]
    last,      \* the last operation performed on the instance and what its caller observed
    peer,      \* an older instance of the same factory, or Undefined when there is none
    reserved,  \* the reserved fields of the instance under observation: [super |-> the delegation slot]
    frames     \* the custom methods and constructors executing on the instance, innermost last

vars == <<schemas, inst, last, peer, reserved, frames>>

----------------------------------------------------------------------------
(* JavaScript values *)

Undefined == [t |-> "undefined"]
Null == [t |-> "null"]
NaN == [t |-> "NaN"]
InvalidDate == [t |-> "invalidDate"]
Bool(b) == [t |-> "boolean", b |-> b]
Num(n) == [t |-> "number", n |-> n]
Str(s) == [t |-> "string", s |-> s]
Text(m) == [t |-> "string", text |-> m]
List(a) == [t |-> "array", a |-> a]
Obj(o) == [t |-> "object", o |-> o]
DateOf(sec) == [t |-> "date", sec |-> sec]
RegExpPrefix(p) == [t |-> "regexp", prefix |-> p]
SchemaArrayOf(a) == [t |-> "SchemaArray", a |-> a]
SchemaObjectOf(factory, i) == [t |-> "SchemaObject", factory |-> factory, obj |-> i.obj, errors |-> i.errors]

EmptyStore == [k \in {} |-> Undefined]
EmptyInstance == [obj |-> EmptyStore, errors |-> <<>>]

\* _.isObject / _.isArray / _.isDate / _.isString / _.isNumber / _.isBoolean of lodash.
isObject(v) == v.t \in {"array", "object", "date", "invalidDate", "regexp", "SchemaArray", "SchemaObject"}
isArray(v) == v.t \in {"array", "SchemaArray"}
isDate(v) == v.t \in {"date", "invalidDate"}
isString(v) == v.t = "string"
isNumber(v) == v.t \in {"number", "NaN"}
isBoolean(v) == v.t = "boolean"

\* The elements of an array-like value.
Elements(v) == IF v.t \in {"array", "SchemaArray"} THEN v.a ELSE <<>>

\* ToBoolean: the falsy values are undefined, null, false, 0, NaN and "".
Truthy(v) ==
    CASE v.t \in {"undefined", "null", "NaN"} -> FALSE
      [] v.t = "boolean" -> v.b
      [] v.t = "number" -> v.n # 0
      [] v.t = "string" -> v # Str(<<>>)
      [] OTHER -> TRUE

----------------------------------------------------------------------------
(* Strings and numerals.  The input strings of the model are written over  *)
(* decimal digits, "-", "," and letters; a string with a letter holds no   *)
(* numeric literal, and numerals are decimal integers.                     *)

Digits == {"0", "1", "2", "3", "4", "5", "6", "7", "8", "9"}

DigitVal(c) ==
    CASE c = "0" -> 0 [] c = "1" -> 1 [] c = "2" -> 2 [] c = "3" -> 3 [] c = "4" -> 4
      [] c = "5" -> 5 [] c = "6" -> 6 [] c = "7" -> 7 [] c = "8" -> 8 [] c = "9" -> 9

IsDigits(s) == Len(s) > 0 /\ \A i \in 1..Len(s) : s[i] \in Digits

RECURSIVE DigitsValue(_)
DigitsValue(s) ==
    IF s = <<>> THEN 0
    ELSE 10 * DigitsValue(SubSeq(s, 1, Len(s) - 1)) + DigitVal(s[Len(s)])

\* Number(s) for a string s: the empty string is 0, a decimal numeral is its value, the rest NaN.
StringToNumber(s) ==
    IF s = <<>> THEN Num(0)
    ELSE IF IsDigits(s) THEN Num(DigitsValue(s))
    ELSE IF s[1] = "-" /\ IsDigits(Tail(s)) THEN Num(0 - DigitsValue(Tail(s)))
    ELSE NaN

\* parseFloat(s) is a number iff s starts with a numeral (after an optional sign).
ParseFloatIsNumber(s) ==
    \/ Len(s) >= 1 /\ s[1] \in Digits
    \/ Len(s) >= 2 /\ s[1] = "-" /\ s[2] \in Digits

\* value.replace(/,/g, '')
RECURSIVE RemoveCommas(_)
RemoveCommas(s) ==
    IF s = <<>> THEN <<>>
    ELSE IF Head(s) = "," THEN RemoveCommas(Tail(s))
    ELSE <<Head(s)>> \o RemoveCommas(Tail(s))

\* value.replace(/\./g, '') then value.replace(/,/g, '.')
RECURSIVE SwapSeparators(_)
SwapSeparators(s) ==
    IF s = <<>> THEN <<>>
    ELSE IF Head(s) = "." THEN SwapSeparators(Tail(s))
    ELSE IF Head(s) = "," THEN <<".">> \o SwapSeparators(Tail(s))
    ELSE <<Head(s)>> \o SwapSeparators(Tail(s))

\* The decimal numeral of a non-negative integer: (value + '') for a number.
RECURSIVE NatToString(_)
NatToString(n) ==
    LET d == CHOOSE c \in Digits : DigitVal(c) = n % 10
    IN IF n < 10 THEN <<d>> ELSE NatToString(n \div 10) \o <<d>>

NumberToString(n) == IF n < 0 THEN <<"-">> \o NatToString(0 - n) ELSE NatToString(n)

\* Number(v) for the primitive values and the arrays that reach it.
ToNumber(v) ==
    CASE v.t = "number" -> v
      [] v.t = "boolean" -> Num(IF v.b THEN 1 ELSE 0)
      [] v.t = "null" -> Num(0)
      [] v.t = "string" -> StringToNumber(v.s)
      [] v.t = "array" /\ v.a = <<>> -> Num(0)
      [] v.t = "array" /\ Len(v.a) = 1 /\ v.a[1].t = "number" -> v.a[1]
      [] v.t = "array" /\ Len(v.a) = 1 /\ v.a[1].t = "string" -> StringToNumber(v.a[1].s)
            [] OTHER -> NaN

\* function isNumeric(n) { return !isNaN(parseFloat(n)) && isFinite(n); }
isNumeric(v) ==
    /\ CASE v.t = "number" -> TRUE
         [] v.t = "string" -> ParseFloatIsNumber(v.s)
         [] v.t = "array" /\ Len(v.a) >= 1 /\ v.a[1].t = "number" -> TRUE
         [] v.t = "array" /\ Len(v.a) >= 1 /\ v.a[1].t = "string" -> ParseFloatIsNumber(v.a[1].s)
         [] OTHER -> FALSE
    /\ ToNumber(v).t = "number"

----------------------------------------------------------------------------
(* Options of a factory (SchemaObject constructor defaults).  No transform, *)
(* getter or toObject hook is set.  A factory's options are held with its   *)
(* compiled schema.  The write hooks onBeforeValueSet and onValueSet are     *)
(* functions of the caller: the model takes a function that changes nothing *)
(* and, for onBeforeValueSet, returns false exactly on the values in vetoes; *)
(* each call of a hook is recorded in calls, held with the options' schema. *)

\* options.constructors.default when none is given: function (values) { this.populate(values); }
DefaultConstructor == [t |-> "function", factory |-> "", home |-> "constructors", name |-> "default"]

\* A method or constructor given in the options of factory under name.  What its body
\* does is the caller's: the specification of extend lets it do any of the things a body
\* can do with the instance's delegation slot.
Implementation(factory, home, name) ==
    [t |-> "function", factory |-> factory, home |-> home, name |-> name]

\* mergedOptions[methodHome][name] of extend: the function that sets the delegation slot
\* to method, applies extension, and deletes the slot.
Override(method, extension) == [t |-> "function", method |-> method, extension |-> extension]

\* The function in the delegation slot: () => method.apply(this, arguments), with the
\* arguments of the call of the override that made it.
Super(method, arguments) == [t |-> "function", method |-> method, arguments |-> arguments]

\* The function a custom constructor's factory function puts in the delegation slot:
\* function () { options.constructors.default.apply(obj, arguments); }
SuperDefault(method) == [t |-> "function", method |-> method]

\* _private._reservedFields = {}
NoReserved == [super |-> Undefined]

DefaultOptions ==
    [strict |-> TRUE, setUndefined |-> FALSE, preserveNull |-> FALSE,
     allowFalsyValues |-> TRUE, useDecimalNumberGroupSeparator |-> FALSE,
     onBeforeValueSet |-> Undefined, onValueSet |-> Undefined,
     methods |-> <<>>, constructors |-> [default |-> DefaultConstructor]]

\* A hook function: (value, name) => !vetoes.includes(value)
Hook(vetoes) == [t |-> "function", vetoes |-> vetoes]

\* options[hook].call(this, value, name), while the store of the instance holds stored
\* under the field's index.
Called(S, F, hook, value, name, stored) ==
    [S EXCEPT ![F].calls = Append(@, [hook |-> hook, value |-> value, name |-> name,
                                      stored |-> stored])]

----------------------------------------------------------------------------
(* Field Descriptors.  Every attribute is a JavaScript value; an attribute  *)
(* the declaration does not give is undefined.  ref names the descriptor    *)
(* object itself (factory, index, and whether it is the element descriptor  *)
(* of an array field): an Error record refers to its descriptor, it does    *)
(* not copy it.                                                             *)

Properties(factory, index, type) ==
    [ref |-> [factory |-> factory, index |-> index, element |-> FALSE],
     name |-> Text(index), type |-> type, index |-> Undefined,
     required |-> Undefined, readOnly |-> Undefined, default |-> Undefined,
     min |-> Undefined, max |-> Undefined,
     minLength |-> Undefined, maxLength |-> Undefined, regex |-> Undefined,
     enum |-> Undefined, clip |-> Undefined,
     unique |-> Undefined, arrayType |-> Undefined, objectType |-> Undefined,
     isAlias |-> Undefined]

\* The element descriptor of an array field: normalizeProperties is called on it without a name.
ElementProperties(factory, index, type) ==
    [Properties(factory, index, type) EXCEPT !.ref.element = TRUE, !.name = Undefined]

----------------------------------------------------------------------------
(* Error taxonomy *)

\* An Error record is held by its code, kind, message and descriptor.  The rejected input
\* and the previous value it also carries are passed along and dropped here: no
\* operation of the library reads them back.
SetterError(errorCode, errorType, errorMessage, setValue, originalValue, fieldSchema) ==
    [errorCode |-> errorCode, errorType |-> errorType, errorMessage |-> errorMessage,
     fieldSchema |-> fieldSchema.ref]

\* errorMessage = errorMessage || default
OrDefault(errorMessage, default) ==
    IF Truthy(errorMessage) THEN errorMessage.text ELSE default

StringCastError(setValue, originalValue, fieldSchema) ==
    SetterError(1101, "CastError", "String type cannot typecast Object or Array types.",
                setValue, originalValue, fieldSchema)
NumberCastError(sourceType, setValue, originalValue, fieldSchema) ==
    SetterError(1102, "CastError", "Number could not be typecast from the provided " \o sourceType,
                setValue, originalValue, fieldSchema)
ArrayCastError(setValue, originalValue, fieldSchema) ==
    SetterError(1103, "CastError", "Array type cannot typecast non-Array types.",
                setValue, originalValue, fieldSchema)
ObjectCastError(setValue, originalValue, fieldSchema) ==
    SetterError(1104, "CastError", "Object type cannot typecast non-Object types.",
                setValue, originalValue, fieldSchema)
DateCastError(setValue, originalValue, fieldSchema) ==
    SetterError(1105, "CastError", "Date type cannot typecast Array or Object types.",
                setValue, originalValue, fieldSchema)
StringEnumValidationError(errorMessage, setValue, originalValue, fieldSchema) ==
    SetterError(1211, "ValidationError", OrDefault(errorMessage, "String does not exist in enum list."),
                setValue, originalValue, fieldSchema)
StringMinLengthValidationError(errorMessage, setValue, originalValue, fieldSchema) ==
    SetterError(1212, "ValidationError",
                OrDefault(errorMessage, "String length too short to meet minLength requirement."),
                setValue, originalValue, fieldSchema)
StringMaxLengthValidationError(errorMessage, setValue, originalValue, fieldSchema) ==
    SetterError(1213, "ValidationError",
                OrDefault(errorMessage, "String length too long to meet maxLength requirement."),
                setValue, originalValue, fieldSchema)
StringRegexValidationError(errorMessage, setValue, originalValue, fieldSchema) ==
    SetterError(1214, "ValidationError",
                OrDefault(errorMessage, "String does not match regular expression pattern."),
                setValue, originalValue, fieldSchema)
NumberMinValidationError(errorMessage, setValue, originalValue, fieldSchema) ==
    SetterError(1221, "ValidationError", OrDefault(errorMessage, "Number is too small to meet min requirement."),
                setValue, originalValue, fieldSchema)
NumberMaxValidationError(errorMessage, setValue, originalValue, fieldSchema) ==
    SetterError(1222, "ValidationError", OrDefault(errorMessage, "Number is too big to meet max requirement."),
                setValue, originalValue, fieldSchema)
DateParseValidationError(errorMessage, setValue, originalValue, fieldSchema) ==
    SetterError(1231, "ValidationError", OrDefault(errorMessage, "Could not parse date."),
                setValue, originalValue, fieldSchema)

\* The outcome of a call that may throw: a returned value, or a thrown Error record.
Return(v) == [thrown |-> FALSE, value |-> v, error |-> Undefined]
Throw(e) == [thrown |-> TRUE, value |-> Undefined, error |-> e]

----------------------------------------------------------------------------
(* Typecast Engine: the scalar types *)

\* value[key] of a plain object held as a sequence of entries, undefined on any other value.
Get(value, key) ==
    IF value.t = "object" /\ \E i \in 1..Len(value.o) : value.o[i].k = key
    THEN value.o[CHOOSE i \in 1..Len(value.o) : value.o[i].k = key].v
    ELSE Undefined

\* function detectCustomErrorMessage(key): the [value, errorMessage] of a constraint.
detectCustomErrorMessage(properties, key) ==
    LET p == properties[key]
    IN IF p.t = "object" /\ Truthy(Get(p, "errorMessage")) /\ Truthy(Get(p, "value"))
       THEN [value |-> Get(p, "value"), errorMessage |-> Get(p, "errorMessage")]
       ELSE IF isArray(p)
       THEN [value |-> IF Len(p.a) >= 1 THEN p.a[1] ELSE Undefined,
             errorMessage |-> IF Len(p.a) >= 2 THEN p.a[2] ELSE Undefined]
       ELSE [value |-> p, errorMessage |-> Undefined]

\* The enum constraint has its own detection: a pair is an array whose first element is an array.
detectEnum(properties) ==
    LET p == properties.enum
    IN IF p.t = "object" /\ Truthy(Get(p, "errorMessage")) /\ Truthy(Get(p, "value"))
       THEN [value |-> Get(p, "value"), errorMessage |-> Get(p, "errorMessage")]
       ELSE IF isArray(p) /\ Len(p.a) >= 1 /\ isArray(p.a[1])
       THEN [value |-> p.a[1], errorMessage |-> IF Len(p.a) >= 2 THEN p.a[2] ELSE Undefined]
       ELSE [value |-> p, errorMessage |-> Undefined]

\* ToIntegerOrInfinity of the length argument of substr: a number is itself, an array
\* goes through its string form ([n] is n, [] is 0, anything with a comma is NaN, so 0).
ToIntegerLength(v) ==
    LET n == ToNumber(v) IN IF n.t = "number" THEN n.n ELSE 0

\* value.substr(0, length)
Substr0(s, length) ==
    IF length <= 0 THEN <<>> ELSE SubSeq(s, 1, IF length < Len(s) THEN length ELSE Len(s))

\* regex.test(value), for the patterns of the model: /^prefix/.
RegexTest(regex, s) ==
    /\ Len(s) >= Len(regex.prefix)
    /\ SubSeq(s, 1, Len(regex.prefix)) = regex.prefix

\* enumValidation.value.indexOf(value) === -1
NotInEnum(enum, value) == \A i \in 1..Len(enum.a) : enum.a[i] # value

\* value + '' for the primitives that pass the object/array test.
ToStringValue(v) ==
    CASE v.t = "string" -> v
      [] v.t = "number" -> Str(NumberToString(v.n))
      [] v.t = "NaN" -> Str(<<"N", "a", "N">>)
      [] v.t = "boolean" -> Str(IF v.b THEN <<"t", "r", "u", "e">> ELSE <<"f", "a", "l", "s", "e">>)

\* A faulty variant of StringValidate that checks minLength before enum.
StringValidateLengthFirst(clipped, originalValue, properties) ==
    LET enumValidation == detectEnum(properties)
        minLength == detectCustomErrorMessage(properties, "minLength")
        maxLength == detectCustomErrorMessage(properties, "maxLength")
        regex == detectCustomErrorMessage(properties, "regex")
    IN IF minLength.value # Undefined /\ Len(clipped.s) < minLength.value.n
       THEN Throw(StringMinLengthValidationError(minLength.errorMessage, clipped, originalValue, properties))
       ELSE IF enumValidation.value # Undefined /\ isArray(enumValidation.value)
          /\ NotInEnum(enumValidation.value, clipped)
       THEN Throw(StringEnumValidationError(enumValidation.errorMessage, clipped, originalValue, properties))
       ELSE IF maxLength.value # Undefined /\ Len(clipped.s) > maxLength.value.n
       THEN Throw(StringMaxLengthValidationError(maxLength.errorMessage, clipped, originalValue, properties))
       ELSE IF Truthy(regex.value) /\ ~RegexTest(regex.value, clipped.s)
       THEN Throw(StringRegexValidationError(regex.errorMessage, clipped, originalValue, properties))
       ELSE Return(clipped)

\* typecast, case 'string', from "Typecast to String" on; clipped is the value after the clip step.
StringValidate(clipped, originalValue, properties) ==
    LET enumValidation == detectEnum(properties)
        minLength == detectCustomErrorMessage(properties, "minLength")
        maxLength == detectCustomErrorMessage(properties, "maxLength")
        regex == detectCustomErrorMessage(properties, "regex")
    IN IF enumValidation.value # Undefined /\ isArray(enumValidation.value)
          /\ NotInEnum(enumValidation.value, clipped)
       THEN Throw(StringEnumValidationError(enumValidation.errorMessage, clipped, originalValue, properties))
       ELSE IF minLength.value # Undefined /\ Len(clipped.s) < minLength.value.n
       THEN Throw(StringMinLengthValidationError(minLength.errorMessage, clipped, originalValue, properties))
       ELSE IF maxLength.value # Undefined /\ Len(clipped.s) > maxLength.value.n
       THEN Throw(StringMaxLengthValidationError(maxLength.errorMessage, clipped, originalValue, properties))
       ELSE IF Truthy(regex.value) /\ ~RegexTest(regex.value, clipped.s)
       THEN Throw(StringRegexValidationError(regex.errorMessage, clipped, originalValue, properties))
       ELSE Return(clipped)

\* The clip step: if (properties.clip !== undefined && properties.maxLength !== undefined)
\*                    value = value.substr(0, properties.maxLength);
StringClip(value, properties) ==
    IF properties.clip # Undefined /\ properties.maxLength # Undefined
    THEN Str(Substr0(value.s, ToIntegerLength(properties.maxLength)))
    ELSE value

TypecastString(value, originalValue, properties) ==
    IF isObject(value) \/ isArray(value)
    THEN Throw(StringCastError(value, originalValue, properties))
    ELSE IF value = Undefined \/ value = Null
    THEN Return(Undefined)
    ELSE StringValidate(StringClip(ToStringValue(value), properties), originalValue, properties)

\* A faulty variant of NumberValidate that forgets the max check.
NumberValidateNoMax(number, originalValue, properties) ==
    LET min == detectCustomErrorMessage(properties, "min")
    IN IF min.value # Undefined /\ number.n < min.value.n
       THEN Throw(NumberMinValidationError(min.errorMessage, number, originalValue, properties))
       ELSE Return(number)

\* typecast, case 'number', once the value is known to be numeric: transform, min, max.
NumberValidate(number, originalValue, properties) ==
    LET min == detectCustomErrorMessage(properties, "min")
        max == detectCustomErrorMessage(properties, "max")
    IN IF min.value # Undefined /\ number.n < min.value.n
       THEN Throw(NumberMinValidationError(min.errorMessage, number, originalValue, properties))
       ELSE IF max.value # Undefined /\ number.n > max.value.n
       THEN Throw(NumberMaxValidationError(max.errorMessage, number, originalValue, properties))
       ELSE Return(number)

\* The digit-group separators of a string are normalized before it is parsed.
NormalizeSeparators(value, options) ==
    IF value.t # "string" THEN value
    ELSE IF options.useDecimalNumberGroupSeparator THEN Str(SwapSeparators(value.s))
    ELSE Str(RemoveCommas(value.s))

\* A faulty variant of TypecastNumber that does not turn a boolean into 1 or 0.
TypecastNumberKeepsBoolean(value, originalValue, properties, options) ==
    IF value = Undefined \/ value = Null \/ value = Str(<<>>)
    THEN Return(Undefined)
    ELSE LET v2 == NormalizeSeparators(value, options)
         IN IF v2.t = "string" /\ ToNumber(v2).t = "NaN"
            THEN Throw(NumberCastError("String", v2, originalValue, properties))
            ELSE IF isArray(v2)
            THEN Throw(NumberCastError("Array", v2, originalValue, properties))
            ELSE IF isObject(v2)
            THEN Throw(NumberCastError("Object", v2, originalValue, properties))
            ELSE IF ~isNumeric(v2)
            THEN Throw(NumberCastError("Non-numeric", v2, originalValue, properties))
            ELSE NumberValidate(ToNumber(v2), originalValue, properties)

\* typecast, case 'number'.
TypecastNumber(value, originalValue, properties, options) ==
    IF value = Undefined \/ value = Null \/ value = Str(<<>>)
    THEN Return(Undefined)
    ELSE LET v1 == IF isBoolean(value) THEN Num(IF value.b THEN 1 ELSE 0) ELSE value
             v2 == NormalizeSeparators(v1, options)
         IN IF v2.t = "string" /\ ToNumber(v2).t = "NaN"
            THEN Throw(NumberCastError("String", v2, originalValue, properties))
            ELSE IF isArray(v2)
            THEN Throw(NumberCastError("Array", v2, originalValue, properties))
            ELSE IF isObject(v2)
            THEN Throw(NumberCastError("Object", v2, originalValue, properties))
            ELSE IF ~isNumeric(v2)
            THEN Throw(NumberCastError("Non-numeric", v2, originalValue, properties))
            ELSE NumberValidate(ToNumber(v2), originalValue, properties)

TypecastBoolean(value, originalValue, properties) ==
    IF value = Undefined \/ value = Null \/ value = Str(<<>>)
    THEN Return(Undefined)
    ELSE IF value = Str(<<"f", "a", "l", "s", "e">>)
    THEN Return(Bool(FALSE))
    ELSE IF isNumeric(value)
    THEN Return(Bool(ToNumber(value).n > 0))
    ELSE Return(Bool(Truthy(value)))

\* A faulty variant of DateParse that finds a date in every string.
DateParseAnything(s) == Num(0)

\* Date.parse(s), in milliseconds.  The date strings of the model are "1970" (the ISO
\* year-only form, time 0) and strings with a letter, which do not parse.
DateParse(s) ==
    IF s = <<"1", "9", "7", "0">> THEN Num(0) ELSE NaN

\* new Date((value + '').length > 10 ? value : value * 1000).  A date is held by its
\* time in seconds.
DateFromTimestamp(n) ==
    DateOf(IF Len(NumberToString(n)) > 10 THEN n \div 1000 ELSE n)

\* A faulty variant of TypecastDate that takes strings and timestamps only: a date value
\* is rejected like an object.
TypecastDateRejectsDate(value, originalValue, properties) ==
    IF value = Undefined \/ value = Null \/ value = Str(<<>>)
    THEN Return(Undefined)
    ELSE IF ~isString(value) /\ ~isNumber(value)
    THEN Throw(DateCastError(value, originalValue, properties))
    ELSE LET v1 == IF isString(value) THEN DateParse(value.s) ELSE value
             v2 == IF isNumeric(v1) THEN DateFromTimestamp(ToNumber(v1).n) ELSE v1
         IN IF v2 = InvalidDate \/ ~isDate(v2)
            THEN Throw(DateParseValidationError(Null, v2, originalValue, properties))
            ELSE Return(v2)

TypecastDate(value, originalValue, properties) ==
    IF value = Undefined \/ value = Null \/ value = Str(<<>>)
    THEN Return(Undefined)
    ELSE IF ~isDate(value) /\ ~isString(value) /\ ~isNumber(value)
    THEN Throw(DateCastError(value, originalValue, properties))
    ELSE LET v1 == IF isString(value) THEN DateParse(value.s) ELSE value
             v2 == IF isNumeric(v1) THEN DateFromTimestamp(ToNumber(v1).n) ELSE v1
         IN IF v2 = InvalidDate \/ ~isDate(v2)
            THEN Throw(DateParseValidationError(Null, v2, originalValue, properties))
            ELSE Return(v2)

----------------------------------------------------------------------------
(* Schemas and raw stores.                                                  *)
(*                                                                          *)
(* A compiled schema is [keys |-> its indexes in declaration order,         *)
(* fields |-> index -> Field Descriptor].  The constructor replaces every   *)
(* descriptor of the factory's schema by a fresh copy named by its index,   *)
(* and binds the new instance's accessors to these copies; with one live    *)
(* instance per factory, the descriptors an instance's accessors are bound  *)
(* to are the ones the shared schema holds.  The operators below therefore  *)
(* take the schemas S and the factory F of the instance I they act on, and  *)
(* return the schemas along with the instance.                              *)

Factory(name) == [t |-> "function", factory |-> name]

Lookup(obj, key) == IF key \in DOMAIN obj THEN obj[key] ELSE Undefined

StoreAt(obj, key, value) ==
    [k \in DOMAIN obj \cup {key} |-> IF k = key THEN value ELSE obj[k]]

InstanceOf(v) == [obj |-> v.obj, errors |-> v.errors]

\* A runtime exception of the language (not a SetterError).
\* It has no errorCode (0 here) and no fieldSchema.
TypeError(message) ==
    [errorCode |-> 0, errorType |-> "TypeError", errorMessage |-> message, fieldSchema |-> Undefined]

\* The property name of an array index.
IndexKey(i) == CASE i = 0 -> "0" [] i = 1 -> "1" [] i = 2 -> "2" [] i = 3 -> "3" [] i = 4 -> "4"

\* _.toArray(value) for an object value: a copy of the elements, or the property values.
ToArray(value) ==
    CASE value.t \in {"array", "SchemaArray"} -> value.a
      [] value.t = "object" -> [i \in 1..Len(value.o) |-> value.o[i].v]
      [] value.t \in {"date", "invalidDate", "regexp"} -> <<>>

\* The enumerable entries of a value, as for (const key in value) visits them.
EntriesOf(value) ==
    CASE value.t = "object" -> value.o
      [] value.t \in {"array", "SchemaArray"} -> [i \in 1..Len(value.a) |-> [k |-> IndexKey(i - 1), v |-> value.a[i]]]
      [] value.t \in {"undefined", "null", "boolean", "number", "NaN", "date", "invalidDate", "regexp"} -> <<>>

\* _.difference(values, present): the values that are not among present, in order.
RECURSIVE Difference(_, _)
Difference(values, present) ==
    IF values = <<>> THEN <<>>
    ELSE IF \E i \in 1..Len(present) : present[i] = Head(values)
    THEN Difference(Tail(values), present)
    ELSE <<Head(values)>> \o Difference(Tail(values), present)

----------------------------------------------------------------------------
(* Typecast Engine (array and object), Typed Array Wrapper, Property        *)
(* Interceptor and Object Instance.  These operations call one another: a   *)
(* call of one from the body of another is written Call(name, arguments),   *)
(* and Call, defined after them all, applies the operation of that name.    *)

RECURSIVE Call(_, _)

\* for (const key in value) over an instance, with value[key]: the keys are the instance's
\* schema indexes, and each is read through its getter.
instanceEntries(S, value) ==
    LET keys == S[value.factory].keys
    IN [i \in 1..Len(keys) |->
           [k |-> keys[i],
            v |-> Call("defineGetter", <<S, value.factory, InstanceOf(value), keys[i]>>).value]]

\* The result of typecast: the schemas, whether it threw, the value it returned or the
\* error it threw, and originalValue as the call left it (an array or a nested instance
\* is changed in place).
Cast(S, r, original) ==
    [schemas |-> S, thrown |-> r.thrown, value |-> r.value, error |-> r.error, original |-> original]

\* args.map(value => typecast(value, undefined, arrayType)): the first throw ends it.
castEach(S, args, arrayType) ==
    IF args = <<>> THEN [schemas |-> S, thrown |-> FALSE, error |-> Undefined, values |-> <<>>]
    ELSE LET one == Call("typecast", <<S, Head(args), Undefined, arrayType>>)
         IN IF one.thrown
            THEN [schemas |-> one.schemas, thrown |-> TRUE, error |-> one.error, values |-> <<>>]
            ELSE LET rest == Call("castEach", <<one.schemas, Tail(args), arrayType>>)
                 IN [rest EXCEPT !.values = <<one.value>> \o @]

\* SchemaArray.push(...args) on the wrapper array of the field with descriptor properties.
push(S, array, args, properties) ==
    LET cast == IF properties.arrayType # Undefined
                THEN Call("castEach", <<S, args, properties.arrayType>>)
                ELSE [schemas |-> S, thrown |-> FALSE, error |-> Undefined, values |-> args]
        values == IF Truthy(properties.unique) THEN Difference(cast.values, array.a) ELSE cast.values
        pushed == [array EXCEPT !.a = @ \o values]
    IN IF cast.thrown
       THEN [schemas |-> cast.schemas, thrown |-> TRUE, error |-> cast.error, array |-> array,
             length |-> Len(array.a)]
       ELSE [schemas |-> cast.schemas, thrown |-> FALSE, error |-> Undefined, array |-> pushed,
             length |-> Len(pushed.a)]

\* _.each(value, arrayValue => originalValue.push(arrayValue))
pushEach(S, array, values, properties) ==
    IF values = <<>>
    THEN [schemas |-> S, thrown |-> FALSE, error |-> Undefined, array |-> array, length |-> Len(array.a)]
    ELSE LET one == Call("push", <<S, array, <<Head(values)>>, properties>>)
         IN IF one.thrown THEN one ELSE Call("pushEach", <<one.schemas, one.array, Tail(values), properties>>)

typecast(S, value, originalValue, properties) ==
    LET options == S[properties.ref.factory].options
    IN
    IF value = Null /\ options.preserveNull THEN Cast(S, Return(Null), originalValue)
    ELSE CASE properties.type = "string" ->
                Cast(S, TypecastString(value, originalValue, properties), originalValue)
           [] properties.type = "number" ->
                Cast(S, TypecastNumber(value, originalValue, properties, options), originalValue)
           [] properties.type = "boolean" ->
                Cast(S, TypecastBoolean(value, originalValue, properties), originalValue)
           [] properties.type = "date" ->
                Cast(S, TypecastDate(value, originalValue, properties), originalValue)
           [] properties.type = "array" ->
                LET list == IF isObject(value) THEN List(ToArray(value)) ELSE value
                IN IF ~isArray(list)
                   THEN Cast(S, Throw(ArrayCastError(list, originalValue, properties)), originalValue)
                   ELSE LET r == Call("pushEach", <<S, [originalValue EXCEPT !.a = <<>>], list.a, properties>>)
                        IN IF r.thrown THEN Cast(r.schemas, Throw(r.error), r.array)
                           ELSE Cast(r.schemas, Return(r.array), r.array)
           [] properties.type = "object" ->
                IF ~isObject(value)
                THEN Cast(S, Throw(ObjectCastError(value, originalValue, properties)), originalValue)
                ELSE IF properties.objectType = Undefined
                THEN Cast(S, Return(value), originalValue)
                ELSE LET NF == properties.objectType.factory
                         start == IF originalValue # Undefined
                                  THEN Call("clear", <<S, NF, InstanceOf(originalValue)>>)
                                  ELSE LET c == Call("SchemaObjectInstance", <<S, NF, Obj(<<>>)>>)
                                       IN [schemas |-> c.schemas, inst |-> c.inst,
                                           thrown |-> FALSE, error |-> Undefined]
                         entries == IF value.t = "SchemaObject"
                                    THEN Call("instanceEntries", <<start.schemas, value>>)
                                    ELSE EntriesOf(value)
                         filled == Call("populateEach", <<start.schemas, NF, start.inst, entries>>)
                         kept(i) == IF originalValue # Undefined THEN SchemaObjectOf(NF, i)
                                    ELSE originalValue
                     IN IF start.thrown
                        THEN Cast(start.schemas, Throw(start.error), kept(start.inst))
                        ELSE Cast(filled.schemas, Return(SchemaObjectOf(NF, filled.inst)),
                                  kept(filled.inst))
           [] OTHER -> Cast(S, Return(value), originalValue)

\* A faulty variant of defineGetter that materializes a value only where none was ever
\* stored: a stored null is returned as it is.
defineGetterKeepsNull(S, F, I, index) ==
    LET properties == S[F].fields[index]
        stored == Lookup(I.obj, index)
    IN IF stored = Undefined /\ properties.type = "array"
       THEN [schemas |-> S, inst |-> [I EXCEPT !.obj = StoreAt(@, index, SchemaArrayOf(<<>>))],
             value |-> SchemaArrayOf(<<>>)]
       ELSE IF stored = Undefined /\ properties.type = "object" /\ properties.objectType = Undefined
       THEN [schemas |-> S, inst |-> [I EXCEPT !.obj = StoreAt(@, index, Obj(<<>>))],
             value |-> Obj(<<>>)]
       ELSE IF stored = Undefined /\ properties.type = "object"
       THEN LET c == Call("SchemaObjectInstance", <<S, properties.objectType.factory, Obj(<<>>)>>)
                made == SchemaObjectOf(properties.objectType.factory, c.inst)
            IN [schemas |-> c.schemas, inst |-> [I EXCEPT !.obj = StoreAt(@, index, made)],
                value |-> made]
       ELSE [schemas |-> S, inst |-> I,
             value |-> Lookup(I.obj, IF properties.type = "alias" THEN properties.index.text
                                     ELSE index)]

\* The getter of field index (defineGetter): lazy materialization, then the stored value.
defineGetter(S, F, I, index) ==
    LET properties == S[F].fields[index]
        indexOrAliasIndex == IF properties.type = "alias" THEN properties.index.text ELSE index
        lazy == /\ ~Truthy(Lookup(I.obj, indexOrAliasIndex))
                /\ properties.type \in {"object", "array"}
        made == IF properties.type = "array"
                THEN [schemas |-> S, value |-> SchemaArrayOf(<<>>)]
                ELSE IF properties.default # Undefined
                THEN [schemas |-> S, value |-> properties.default]
                ELSE IF properties.objectType # Undefined
                THEN LET c == Call("SchemaObjectInstance", <<S, properties.objectType.factory, Obj(<<>>)>>)
                     IN [schemas |-> c.schemas,
                         value |-> SchemaObjectOf(properties.objectType.factory, c.inst)]
                ELSE [schemas |-> S, value |-> Obj(<<>>)]
        w == IF lazy
             THEN Call("writeValue", <<made.schemas, F, I, made.value, made.schemas[F].fields[index]>>)
             ELSE [schemas |-> S, inst |-> I]
    IN [schemas |-> w.schemas, inst |-> w.inst, value |-> Lookup(w.inst.obj, indexOrAliasIndex)]

\* A faulty variant of writeValue that stores an alias's value under the alias's own name.
writeValueStoresAlias(S, F, I, value, fieldSchema) ==
    [schemas |-> S, inst |-> [I EXCEPT !.obj = StoreAt(@, fieldSchema.name.text, value)]]

\* writeValue(value, fieldSchema): onBeforeValueSet may cancel the write; an alias writes
\* to its target through the public interface; any other field stores the value under the
\* descriptor's name, and onValueSet is told.
writeValue(S, F, I, value, fieldSchema) ==
    LET options == S[F].options
        name == fieldSchema.name
        asked == IF options.onBeforeValueSet # Undefined
                 THEN Called(S, F, "onBeforeValueSet", value, name, Lookup(I.obj, name.text))
                 ELSE S
        cancelled == /\ options.onBeforeValueSet # Undefined
                     /\ value \in options.onBeforeValueSet.vetoes
        I1 == [I EXCEPT !.obj = StoreAt(@, fieldSchema.name.text, value)]
        told == IF options.onValueSet # Undefined
                THEN Called(asked, F, "onValueSet", value, name, Lookup(I1.obj, name.text))
                ELSE asked
    IN IF cancelled THEN [schemas |-> asked, inst |-> I]
       ELSE IF fieldSchema.type = "alias"
       THEN Call("ProxySet", <<asked, F, I, fieldSchema.index.text, value>>)
       ELSE [schemas |-> told, inst |-> I1]

\* A faulty variant of addToSchema that admits the key as a string field.
addToSchemaAsString(S, F, index) ==
    [S EXCEPT ![F].keys = @ \o <<index>>,
              ![F].fields = StoreAt(@, index, Properties(F, index, "string"))]

\* addToSchema(index, {type: 'any'})
addToSchema(S, F, index) ==
    [S EXCEPT ![F].keys = @ \o <<index>>,
              ![F].fields = StoreAt(@, index, Properties(F, index, "any"))]

\* The set trap of the instance's Proxy: instance[name] = value.
ProxySet(S, F, I, name, value) ==
    IF name \notin DOMAIN S[F].fields
    THEN IF S[F].options.strict THEN [schemas |-> S, inst |-> I]
         ELSE Call("defineSetter", <<addToSchema(S, F, name), F, I, name, value>>)
    ELSE Call("defineSetter", <<S, F, I, name, value>>)

\* The get trap of the instance's Proxy: instance[name].  A key with no accessor is an
\* ordinary property lookup, and the instance has no property of that name.
ProxyGet(S, F, I, name) ==
    IF name \notin DOMAIN S[F].fields
    THEN [schemas |-> S, inst |-> I, value |-> Undefined]
    ELSE Call("defineGetter", <<S, F, I, name>>)

\* The setter of field index (defineSetter).
defineSetter(S, F, I, index, value) ==
    LET properties == S[F].fields[index]
        read == Call("defineGetter", <<S, F, I, index>>)
        cast == Call("typecast", <<read.schemas, value, read.value, read.schemas[F].fields[index]>>)
        I1 == IF cast.original # read.value
              THEN [read.inst EXCEPT !.obj = StoreAt(@, index, cast.original)]
              ELSE read.inst
    IN IF Truthy(properties.readOnly) THEN [schemas |-> S, inst |-> I]
       ELSE IF cast.thrown
       THEN [schemas |-> cast.schemas, inst |-> [I1 EXCEPT !.errors = Append(@, cast.error)]]
       ELSE Call("writeValue", <<cast.schemas, F, I1, cast.value, cast.schemas[F].fields[index]>>)

\* clearField(index, properties) on the public interface of I.
clearField(S, F, I, index) ==
    LET properties == S[F].fields[index]
        name == properties.name.text
        read == Call("defineGetter", <<S, F, I, name>>)
        done(S1, I1) == [schemas |-> S1, inst |-> I1, thrown |-> FALSE, error |-> Undefined]
        fail(S1, I1, m) == [schemas |-> S1, inst |-> I1, thrown |-> TRUE, error |-> TypeError(m)]
    IN IF properties.isAlias = Bool(TRUE) THEN done(S, I)
       ELSE IF properties.type = "object"
       THEN IF name \notin DOMAIN S[F].fields
            THEN fail(S, I, "Cannot read property 'clear' of undefined")
            ELSE IF read.value.t = "SchemaObject"
            THEN LET c == Call("clear", <<read.schemas, read.value.factory, InstanceOf(read.value)>>)
                 IN [schemas |-> c.schemas,
                     inst |-> [read.inst EXCEPT
                                  !.obj = StoreAt(@, name, SchemaObjectOf(read.value.factory, c.inst))],
                     thrown |-> c.thrown, error |-> c.error]
            ELSE fail(read.schemas, read.inst, "this[properties.name].clear is not a function")
       ELSE IF properties.type = "array"
       THEN IF name \notin DOMAIN S[F].fields
            THEN fail(S, I, "Cannot set property 'length' of undefined")
            ELSE done(read.schemas,
                      [read.inst EXCEPT !.obj = StoreAt(@, name, [read.value EXCEPT !.a = <<>>])])
       ELSE LET w == Call("writeValue", <<S, F, I, Undefined, properties>>)
            IN done(w.schemas, w.inst)

\* _.each(schema, (properties, index) => clearField(index, properties)): a throw ends it.
clearEach(S, F, I, keys) ==
    IF keys = <<>> THEN [schemas |-> S, inst |-> I, thrown |-> FALSE, error |-> Undefined]
    ELSE LET one == Call("clearField", <<S, F, I, Head(keys)>>)
         IN IF one.thrown THEN one ELSE Call("clearEach", <<one.schemas, F, one.inst, Tail(keys)>>)

\* SchemaObjectInstance.clear()
clear(S, F, I) == Call("clearEach", <<S, F, I, S[F].keys>>)

\* for (const key in values) this[key] = values[key], through the public interface.
populateEach(S, F, I, entries) ==
    IF entries = <<>> THEN [schemas |-> S, inst |-> I]
    ELSE LET one == Call("ProxySet", <<S, F, I, Head(entries).k, Head(entries).v>>)
         IN Call("populateEach", <<one.schemas, F, one.inst, Tail(entries)>>)

\* SchemaObjectInstance.populate(values)
populate(S, F, I, values) == Call("populateEach", <<S, F, I, EntriesOf(values)>>)

\* A faulty variant of applyDefaults that leaves readOnly turned off after the write.
applyDefaultsLeavesWritable(S, F, I, keys) ==
    IF keys = <<>> THEN [schemas |-> S, inst |-> I]
    ELSE LET index == Head(keys)
             properties == S[F].fields[index]
             off == [S EXCEPT ![F].fields[index].readOnly = Bool(FALSE)]
             set == Call("defineSetter", <<off, F, I, index, properties.default>>)
         IN IF properties.default # Undefined
            THEN Call("applyDefaults", <<set.schemas, F, set.inst, Tail(keys)>>)
            ELSE Call("applyDefaults", <<S, F, I, Tail(keys)>>)

\* The constructor's defaults: each declared default is written through the setter with
\* the descriptor's readOnly turned off for the write and restored after it.
applyDefaults(S, F, I, keys) ==
    IF keys = <<>> THEN [schemas |-> S, inst |-> I]
    ELSE LET index == Head(keys)
             properties == S[F].fields[index]
             off == [S EXCEPT ![F].fields[index].readOnly = Bool(FALSE)]
             set == Call("defineSetter", <<off, F, I, index, properties.default>>)
             on == [set.schemas EXCEPT ![F].fields[index].readOnly = properties.readOnly]
         IN IF properties.default # Undefined
            THEN Call("applyDefaults", <<on, F, set.inst, Tail(keys)>>)
            ELSE Call("applyDefaults", <<S, F, I, Tail(keys)>>)

\* normalizeProperties(properties, index) on a compiled descriptor: a copy named index.
normalizeProperties(properties, name) == [properties EXCEPT !.name = Text(name)]

\* new SchemaObjectInstance(values): the schema's descriptors are normalized again, the
\* defaults applied, and the default constructor populates the instance with values.
SchemaObjectInstance(S, F, values) ==
    LET normalized == [S EXCEPT ![F].fields =
                           [index \in DOMAIN @ |-> normalizeProperties(@[index], index)]]
        defaults == Call("applyDefaults", <<normalized, F, EmptyInstance, normalized[F].keys>>)
    IN Call("populate", <<defaults.schemas, F, defaults.inst, values>>)

----------------------------------------------------------------------------
(* getErrors.  An entry of the returned list is [errorCode, errorType,      *)
(* errorMessage, name, ref]: name is the name of the entry's own copy of    *)
(* its descriptor (a logged error is deep-cloned), and ref is undefined; a  *)
(* required-missing error is built on the schema's descriptor itself, so    *)
(* its ref names that descriptor and its name is the descriptor's.          *)

\* The descriptor object a ref names.
DescriptorAt(S, ref) ==
    IF ref.element THEN S[ref.factory].fields[ref.index].arrayType
    ELSE S[ref.factory].fields[ref.index]

\* `${name}`
NameString(name) == IF name = Undefined THEN "undefined" ELSE name.text

\* for (let error of _errors) errors.push(_.cloneDeep(error))
ownErrors(S, I) ==
    [i \in 1..Len(I.errors) |->
        [errorCode |-> I.errors[i].errorCode, errorType |-> I.errors[i].errorType,
         errorMessage |-> I.errors[i].errorMessage,
         name |-> IF I.errors[i].fieldSchema = Undefined THEN Undefined
                  ELSE DescriptorAt(S, I.errors[i].fieldSchema).name,
         ref |-> Undefined]]

\* The required loop: a SetterError (code 1000, no errorType) for each required field
\* whose value read through the getter does not count as provided.
requiredEach(S, F, I, keys) ==
    IF keys = <<>> THEN [schemas |-> S, inst |-> I, errors |-> <<>>]
    ELSE LET index == Head(keys)
             properties == S[F].fields[index]
             declared == properties.required
             custom == isArray(declared) /\ Len(declared.a) >= 2 /\ Truthy(declared.a[2])
             message == IF custom THEN declared.a[2].text
                        ELSE index \o " is required but not provided"
             required == IF isArray(declared) THEN declared.a[1] ELSE declared
             read == Call("defineGetter", <<S, F, I, index>>)
             provided == \/ Truthy(read.value)
                         \/ isBoolean(read.value)
                         \/ S[F].options.allowFalsyValues /\ read.value # Undefined
             error == [errorCode |-> 1000, errorType |-> "", errorMessage |-> message,
                       name |-> Undefined, ref |-> properties.ref]
         IN IF ~Truthy(required)
            THEN Call("requiredEach", <<S, F, I, Tail(keys)>>)
            ELSE LET rest == Call("requiredEach", <<read.schemas, F, read.inst, Tail(keys)>>)
                 IN IF provided THEN rest ELSE [rest EXCEPT !.errors = <<error>> \o @]

\* subError.fieldSchema.name = `${name}.${subError.fieldSchema.name}` for each subError:
\* on a cloned descriptor it renames the copy, on a schema descriptor the schema's own.
prefixEach(S, name, subErrors) ==
    IF subErrors = <<>> THEN [schemas |-> S, errors |-> <<>>]
    ELSE LET subError == Head(subErrors)
             ref == subError.ref
             renamed == [S EXCEPT ![ref.factory].fields[ref.index].name =
                                      Text(name \o "." \o NameString(@))]
             copy == [subError EXCEPT !.name = Text(name \o "." \o NameString(@))]
         IN IF ref = Undefined
            THEN LET rest == Call("prefixEach", <<S, name, Tail(subErrors)>>)
                 IN [rest EXCEPT !.errors = <<copy>> \o @]
            ELSE LET rest == Call("prefixEach", <<renamed, name, Tail(subErrors)>>)
                 IN [rest EXCEPT !.errors = <<subError>> \o @]

\* The loop over the nested schema-typed fields.
subErrorsEach(S, F, I, keys) ==
    IF keys = <<>> THEN [schemas |-> S, inst |-> I, errors |-> <<>>]
    ELSE LET name == Head(keys)
             field == S[F].fields[name]
             read == Call("defineGetter", <<S, F, I, name>>)
             sub == Call("getErrors", <<read.schemas, read.value.factory, InstanceOf(read.value)>>)
             I1 == [read.inst EXCEPT
                       !.obj = StoreAt(@, name, SchemaObjectOf(read.value.factory, sub.inst))]
             prefixed == Call("prefixEach", <<sub.schemas, name, sub.errors>>)
         IN IF field.type = "object" /\ field.objectType # Undefined
            THEN LET rest == Call("subErrorsEach", <<prefixed.schemas, F, I1, Tail(keys)>>)
                 IN [rest EXCEPT !.errors = prefixed.errors \o @]
            ELSE Call("subErrorsEach", <<S, F, I, Tail(keys)>>)

\* SchemaObjectInstance.getErrors()
getErrors(S, F, I) ==
    LET own == ownErrors(S, I)
        missing == Call("requiredEach", <<S, F, I, S[F].keys>>)
        nested == Call("subErrorsEach", <<missing.schemas, F, missing.inst, missing.schemas[F].keys>>)
    IN [schemas |-> nested.schemas, inst |-> nested.inst,
        errors |-> own \o missing.errors \o nested.errors]

\* instance[index].push(...args) on the public interface of I: the wrapper is read through
\* the getter, and a field that reads undefined has no push to call.
pushTo(S, F, I, index, args) ==
    LET read == Call("defineGetter", <<S, F, I, index>>)
        r == Call("push", <<read.schemas, read.value, args, read.schemas[F].fields[index]>>)
    IN IF read.value.t # "SchemaArray"
       THEN [schemas |-> read.schemas, inst |-> read.inst, thrown |-> TRUE,
             error |-> TypeError("Cannot read property 'push' of undefined")]
       ELSE [schemas |-> r.schemas,
             inst |-> [read.inst EXCEPT !.obj = StoreAt(@, index, r.array)],
             thrown |-> r.thrown, error |-> r.error]

\* instance[index][name] = value on the public interface of I, for a nested schema-typed
\* field index: the nested instance is read through the getter of index, and its own
\* set trap takes the write.
writeNested(S, F, I, index, name, value) ==
    LET read == Call("defineGetter", <<S, F, I, index>>)
        NF == read.value.factory
        w == Call("ProxySet", <<read.schemas, NF, InstanceOf(read.value), name, value>>)
    IN [schemas |-> w.schemas,
        inst |-> [read.inst EXCEPT !.obj = StoreAt(@, index, SchemaObjectOf(NF, w.inst))]]

\* _.size(value)
SizeOf(value) ==
    CASE value.t \in {"array", "SchemaArray"} -> Len(value.a)
      [] value.t = "object" -> Len(value.o)
      [] value.t = "string" -> Len(value.s)
      [] OTHER -> 0

\* SchemaArray.toArray(), element by element: a nested instance is serialized with its
\* own toObject (which may materialize fields of it), any other element is copied.
toArrayEach(S, elements) ==
    IF elements = <<>> THEN [schemas |-> S, elements |-> <<>>, values |-> <<>>]
    ELSE LET element == Head(elements)
             one == Call("toObject", <<S, element.factory, InstanceOf(element)>>)
         IN IF element.t = "SchemaObject"
            THEN LET rest == Call("toArrayEach", <<one.schemas, Tail(elements)>>)
                 IN [rest EXCEPT !.elements = <<SchemaObjectOf(element.factory, one.inst)>> \o @,
                                 !.values = <<one.value>> \o @]
            ELSE LET rest == Call("toArrayEach", <<S, Tail(elements)>>)
                 IN [rest EXCEPT !.elements = <<element>> \o @, !.values = <<element>> \o @]

\* The loop of toObject over the schema: each field is read through the public
\* interface; an absent value is left out, a nested instance and a wrapper are
\* serialized, a plain array is taken out of the stored one (splice(0)), and what comes
\* out empty is left out.  No descriptor of the model is invisible.
toObjectEach(S, F, I, keys) ==
    IF keys = <<>> THEN [schemas |-> S, inst |-> I, entries |-> <<>>]
    ELSE LET index == Head(keys)
             properties == S[F].fields[index]
             options == S[F].options
             stored == IF properties.type = "alias" THEN properties.index.text ELSE index
             read == Call("defineGetter", <<S, F, I, index>>)
             value == read.value
             out == CASE value.t = "SchemaObject" ->
                            LET nested == Call("toObject", <<read.schemas, value.factory, InstanceOf(value)>>)
                            IN [schemas |-> nested.schemas, value |-> nested.value,
                                kept |-> SchemaObjectOf(value.factory, nested.inst)]
                      [] value.t = "SchemaArray" ->
                            LET list == Call("toArrayEach", <<read.schemas, value.a>>)
                            IN [schemas |-> list.schemas, value |-> List(list.values),
                                kept |-> [value EXCEPT !.a = list.elements]]
                      [] value.t = "array" ->
                            [schemas |-> read.schemas, value |-> value, kept |-> List(<<>>)]
                      [] OTHER ->
                            [schemas |-> read.schemas, value |-> value, kept |-> value]
             I1 == IF out.kept # value
                   THEN [read.inst EXCEPT !.obj = StoreAt(@, stored, out.kept)]
                   ELSE read.inst
             leftOut == \/ value = Undefined /\ ~options.setUndefined
                        \/ /\ isObject(value) /\ ~isDate(out.value)
                           /\ ~options.setUndefined /\ SizeOf(out.value) = 0
             rest == Call("toObjectEach", <<out.schemas, F, I1, Tail(keys)>>)
         IN IF leftOut THEN rest
            ELSE [rest EXCEPT !.entries = <<[k |-> index, v |-> out.value]>> \o @]

\* SchemaObjectInstance.toObject()
toObject(S, F, I) ==
    LET r == Call("toObjectEach", <<S, F, I, S[F].keys>>)
    IN [schemas |-> r.schemas, inst |-> r.inst, value |-> Obj(r.entries)]

\* SchemaObjectInstance.clone(): inst is the new instance, source the one cloned.
clone(S, F, I) ==
    LET snapshot == Call("toObject", <<S, F, I>>)
        made == Call("SchemaObjectInstance", <<snapshot.schemas, F, snapshot.value>>)
    IN [schemas |-> made.schemas, inst |-> made.inst, source |-> snapshot.inst]

\* A descriptor as the factory NF holds it.
ownedBy(properties, NF) ==
    [properties EXCEPT !.ref.factory = NF,
                       !.arrayType = IF @ = Undefined THEN @ ELSE [@ EXCEPT !.ref.factory = NF]]

\* _.merge({}, schema, extendSchema): a fresh schema; a field of both is merged attribute
\* by attribute, an attribute the extension does not give keeping the base's value.
mergeSchema(schema, extendSchema, NF) ==
    LET added == SelectSeq(extendSchema.keys, LAMBDA index : index \notin DOMAIN schema.fields)
    IN [keys |-> schema.keys \o added,
        fields |-> [index \in DOMAIN schema.fields \cup DOMAIN extendSchema.fields |->
                       IF index \notin DOMAIN extendSchema.fields
                       THEN ownedBy(schema.fields[index], NF)
                       ELSE IF index \notin DOMAIN schema.fields
                       THEN ownedBy(extendSchema.fields[index], NF)
                       ELSE [a \in DOMAIN schema.fields[index] |->
                                IF a \in {"ref", "name"} THEN ownedBy(schema.fields[index], NF)[a]
                                ELSE IF a = "type" THEN extendSchema.fields[index].type
                                ELSE IF extendSchema.fields[index][a] # Undefined
                                THEN extendSchema.fields[index][a]
                                ELSE schema.fields[index][a]]]]

\* options[methodHome] of options that may not give it.
homeOf(options, methodHome) ==
    IF methodHome \in DOMAIN options THEN options[methodHome] ELSE <<>>

\* mergedOptions[methodHome] of extend: the merge of the two homes, and where both
\* homes are non-empty, each function of the base that the extension gives too is
\* replaced by the override that binds the delegation slot.
mergeHome(options, extendOptions, methodHome) ==
    LET base == options[methodHome]
        extension == homeOf(extendOptions, methodHome)
    IN [name \in DOMAIN base \cup DOMAIN extension |->
           IF name \in DOMAIN base /\ name \in DOMAIN extension
           THEN Override(base[name], extension[name])
           ELSE IF name \in DOMAIN extension THEN extension[name] ELSE base[name]]

\* SchemaObjectInstance.extend(extendSchema, extendOptions) on factory F: the schemas with
\* the new factory NF.
extend(S, F, NF, extendSchema, extendOptions) ==
    LET schema == S[F]
        options == schema.options
        mergedSchema == mergeSchema(schema, extendSchema, NF)
        mergedOptions == [k \in DOMAIN options |->
                             IF k \in {"methods", "constructors"}
                             THEN mergeHome(options, extendOptions, k)
                             ELSE IF k \in DOMAIN extendOptions THEN extendOptions[k]
                             ELSE options[k]]
    IN [f \in DOMAIN S \cup {NF} |->
           IF f = NF
           THEN [keys |-> mergedSchema.keys, fields |-> mergedSchema.fields,
                 options |-> mergedOptions, calls |-> <<>>]
           ELSE S[f]]

\* for (const key in value) schemaObject[key] = value[key], where value is schemaObject
\* itself: each field of the instance is assigned the value read from it.
assignSelfEach(S, F, I, keys) ==
    IF keys = <<>> THEN [schemas |-> S, inst |-> I]
    ELSE LET one == Call("assignSelf", <<S, F, I, Head(keys)>>)
         IN Call("assignSelfEach", <<one.schemas, F, one.inst, Tail(keys)>>)

\* instance[index] = instance[index] on the public interface of I.  The value assigned
\* to a nested schema-typed field is the nested instance the field holds: value and
\* originalValue of typecast are one object, which is cleared and then copied from
\* itself.  Any other value is assigned as a write of it is.
assignSelf(S, F, I, index) ==
    LET read == Call("defineGetter", <<S, F, I, index>>)
        properties == read.schemas[F].fields[index]
        value == read.value
        NF == value.factory
        cleared == Call("clear", <<read.schemas, NF, InstanceOf(value)>>)
        copied == Call("assignSelfEach", <<cleared.schemas, NF, cleared.inst, cleared.schemas[NF].keys>>)
        kept(i) == [read.inst EXCEPT !.obj = StoreAt(@, index, SchemaObjectOf(NF, i))]
    IN IF /\ properties.type = "object" /\ properties.objectType # Undefined
          /\ value.t = "SchemaObject" /\ ~Truthy(properties.readOnly)
       THEN IF cleared.thrown
            THEN [schemas |-> cleared.schemas,
                  inst |-> [kept(cleared.inst) EXCEPT !.errors = Append(@, cleared.error)]]
            ELSE Call("writeValue", <<copied.schemas, F, kept(copied.inst),
                                      SchemaObjectOf(NF, copied.inst), copied.schemas[F].fields[index]>>)
       ELSE Call("ProxySet", <<read.schemas, F, read.inst, index, value>>)

\* The loop of concat over its arguments: a wrapper contributes its toArray(), and
\* Array.prototype.concat spreads an array and appends any other value as one element.
concatEach(S, args) ==
    IF args = <<>> THEN [schemas |-> S, values |-> <<>>]
    ELSE LET arg == Head(args)
             list == Call("toArrayEach", <<S, arg.a>>)
             one == CASE arg.t = "SchemaArray" -> [schemas |-> list.schemas, values |-> list.values]
                      [] arg.t = "array" -> [schemas |-> S, values |-> arg.a]
                      [] OTHER -> [schemas |-> S, values |-> <<arg>>]
             rest == Call("concatEach", <<one.schemas, Tail(args)>>)
         IN [rest EXCEPT !.values = one.values \o @]

\* SchemaArray.concat(...args) on the wrapper array of the field with descriptor
\* properties: array is the new wrapper, receiver the wrapper it was called on.  A push
\* that throws ends the call, and no wrapper is returned.
concat(S, array, args, properties) ==
    LET own == Call("toArrayEach", <<S, array.a>>)
        others == Call("concatEach", <<own.schemas, args>>)
        made == Call("pushEach", <<others.schemas, SchemaArrayOf(<<>>), own.values \o others.values,
                                   properties>>)
    IN [schemas |-> made.schemas, thrown |-> made.thrown, error |-> made.error,
        array |-> IF made.thrown THEN Undefined ELSE made.array,
        receiver |-> [array EXCEPT !.a = own.elements]]

\* The operation named op applied to the arguments a.
Call(op, a) ==
    CASE op = "typecast" -> typecast(a[1], a[2], a[3], a[4])
      [] op = "castEach" -> castEach(a[1], a[2], a[3])
      [] op = "push" -> push(a[1], a[2], a[3], a[4])
      [] op = "pushEach" -> pushEach(a[1], a[2], a[3], a[4])
      [] op = "defineGetter" -> defineGetter(a[1], a[2], a[3], a[4])
      [] op = "writeValue" -> writeValue(a[1], a[2], a[3], a[4], a[5])
      [] op = "ProxySet" -> ProxySet(a[1], a[2], a[3], a[4], a[5])
      [] op = "ProxyGet" -> ProxyGet(a[1], a[2], a[3], a[4])
      [] op = "defineSetter" -> defineSetter(a[1], a[2], a[3], a[4], a[5])
      [] op = "clearField" -> clearField(a[1], a[2], a[3], a[4])
      [] op = "clearEach" -> clearEach(a[1], a[2], a[3], a[4])
      [] op = "clear" -> clear(a[1], a[2], a[3])
      [] op = "populateEach" -> populateEach(a[1], a[2], a[3], a[4])
      [] op = "populate" -> populate(a[1], a[2], a[3], a[4])
      [] op = "applyDefaults" -> applyDefaults(a[1], a[2], a[3], a[4])
      [] op = "SchemaObjectInstance" -> SchemaObjectInstance(a[1], a[2], a[3])
      [] op = "requiredEach" -> requiredEach(a[1], a[2], a[3], a[4])
      [] op = "prefixEach" -> prefixEach(a[1], a[2], a[3])
      [] op = "subErrorsEach" -> subErrorsEach(a[1], a[2], a[3], a[4])
      [] op = "getErrors" -> getErrors(a[1], a[2], a[3])
      [] op = "pushTo" -> pushTo(a[1], a[2], a[3], a[4], a[5])
      [] op = "writeNested" -> writeNested(a[1], a[2], a[3], a[4], a[5], a[6])
      [] op = "toArrayEach" -> toArrayEach(a[1], a[2])
      [] op = "toObjectEach" -> toObjectEach(a[1], a[2], a[3], a[4])
      [] op = "toObject" -> toObject(a[1], a[2], a[3])
      [] op = "clone" -> clone(a[1], a[2], a[3])
      [] op = "concatEach" -> concatEach(a[1], a[2])
      [] op = "instanceEntries" -> instanceEntries(a[1], a[2])
      [] op = "assignSelfEach" -> assignSelfEach(a[1], a[2], a[3], a[4])
      [] op = "assignSelf" -> assignSelf(a[1], a[2], a[3], a[4])
      [] op = "concat" -> concat(a[1], a[2], a[3], a[4])

\* The list as its caller sees it: an entry that refers to a schema descriptor shows the
\* name that descriptor has when getErrors returns.
ErrorsSeen(S, errors) ==
    [i \in 1..Len(errors) |->
        [errorCode |-> errors[i].errorCode, errorType |-> errors[i].errorType,
         errorMessage |-> errors[i].errorMessage,
         name |-> IF errors[i].ref = Undefined THEN errors[i].name
                  ELSE DescriptorAt(S, errors[i].ref).name]]

----------------------------------------------------------------------------
(* The strings of the model *)

sEmpty == <<>>
s15 == <<"1", "5">>
sMinus1 == <<"-", "1">>
sabc == <<"a", "b", "c">>
sfalse == <<"f", "a", "l", "s", "e">>
s1970 == <<"1", "9", "7", "0">>
sAnn == <<"A", "n", "n">>
sB == <<"B">>
sBo == <<"B", "o">>
sBob == <<"B", "o", "b">>
sAnnabel == <<"A", "n", "n", "a", "b", "e", "l">>
sBarbara == <<"B", "a", "r", "b", "a", "r", "a">>
sZ == <<"Z">>
shello == <<"h", "e", "l", "l", "o">>
stoolong == <<"t", "o", "o", "l", "o", "n", "g">>

----------------------------------------------------------------------------
(* Bounds *)

\* A write, populate or push is taken while the error log is shorter than this.
MaxErrors == 1
\* A push is taken while the wrapper is shorter than this.
MaxLen == 2
\* getErrors is taken while the nested descriptors carry fewer prefixes than this.
MaxPrefix == 2

----------------------------------------------------------------------------
(* The schemas of the model.  Root is the factory of the observed instance, *)
(* Profile the factory of its nested schema-typed field.                    *)

Schema(keys, fields) ==
    [keys |-> keys, fields |-> fields, options |-> DefaultOptions, calls |-> <<>>]

\* { name: {type: String, required: true} }
ProfileSchema ==
    Schema(<<"name">>,
           [name |-> [Properties("Profile", "name", "string") EXCEPT !.required = Bool(TRUE)]])

NameEnum == List(<<Str(sAnn), Str(sB), Str(sBo), Str(sAnnabel), Str(sBarbara)>>)

\* The declarations of a constraint in the string specification: left out, the bare
\* value, or the pair [value, customMessage].
Forms(value, customMessage) == {Undefined, value, List(<<value, Text(customMessage)>>)}

CodeEnum == List(<<Str(sAnn), Str(sB), Str(sAnnabel)>>)

\* { code: {type: String, enum: [Ann, B, Annabel], minLength: 2, maxLength: 5, regex: /^A/,
\*          clip: true} }, with each constraint in each of its forms, with and without clip.
StringSchemas ==
    {Schema(<<"code">>,
            [code |-> [Properties("Root", "code", "string") EXCEPT
                          !.enum = enum, !.minLength = minLength, !.maxLength = maxLength,
                          !.regex = regex, !.clip = clip]]) :
        enum \in Forms(CodeEnum, "not a code"),
        minLength \in Forms(Num(2), "too short"),
        maxLength \in Forms(Num(5), "too long"),
        regex \in Forms(RegExpPrefix(<<"A">>), "no match"),
        clip \in {Undefined, Bool(TRUE)}}

\* { age: {type: Number, min: 0, max: 120},
\*   name: {type: String, required: true, enum: [...], minLength: 2, maxLength: 5, regex: /^A/},
\*   flag: Boolean, nick: {type: 'alias', index: 'name'} }
ScalarSchema ==
    Schema(<<"age", "name", "flag", "nick">>,
           [age |-> [Properties("Root", "age", "number") EXCEPT !.min = Num(0), !.max = Num(120)],
            name |-> [Properties("Root", "name", "string") EXCEPT
                         !.required = Bool(TRUE), !.enum = NameEnum,
                         !.minLength = Num(2), !.maxLength = Num(5),
                         !.regex = RegExpPrefix(<<"A">>)],
            flag |-> Properties("Root", "flag", "boolean"),
            nick |-> [Properties("Root", "nick", "alias") EXCEPT !.index = Text("name")]])

\* { title: {type: String, maxLength: 5}, born: Date,
\*   tags: [{type: String, maxLength: 5}], labels: {type: 'alias', index: 'tags'},
\*   profile: Profile, who: {type: 'alias', index: 'profile'} }
RootSchema ==
    Schema(<<"title", "born", "tags", "labels", "profile", "who">>,
           [title |-> [Properties("Root", "title", "string") EXCEPT !.maxLength = Num(5)],
            born |-> Properties("Root", "born", "date"),
            tags |-> [Properties("Root", "tags", "array") EXCEPT
                         !.arrayType = [ElementProperties("Root", "tags", "string") EXCEPT
                                           !.maxLength = Num(5)]],
            labels |-> [Properties("Root", "labels", "alias") EXCEPT !.index = Text("tags")],
            profile |-> [Properties("Root", "profile", "object") EXCEPT
                            !.objectType = Factory("Profile")],
            who |-> [Properties("Root", "who", "alias") EXCEPT !.index = Text("profile")]])

\* { headline: {type: String, required: true}, profile: Profile }
NestedSchema ==
    Schema(<<"headline", "profile">>,
           [headline |-> [Properties("Root", "headline", "string") EXCEPT !.required = Bool(TRUE)],
            profile |-> [Properties("Root", "profile", "object") EXCEPT
                            !.objectType = Factory("Profile")]])

\* { words: [{type: String, maxLength: 5}],
\*   nums: {type: Array, arrayType: Number, unique: true} }
ArraySchema ==
    Schema(<<"words", "nums">>,
           [words |-> [Properties("Root", "words", "array") EXCEPT
                          !.arrayType = [ElementProperties("Root", "words", "string") EXCEPT
                                            !.maxLength = Num(5)]],
            nums |-> [Properties("Root", "nums", "array") EXCEPT
                         !.arrayType = ElementProperties("Root", "nums", "number"),
                         !.unique = Bool(TRUE)]])

\* { items: [{type: String, maxLength: 5}], owner: Profile, extra: Object }, under the
\* given options.
ObjectSchema(options) ==
    [Schema(<<"items", "owner", "extra">>,
            [items |-> [Properties("Root", "items", "array") EXCEPT
                           !.arrayType = [ElementProperties("Root", "items", "string") EXCEPT
                                             !.maxLength = Num(5)]],
             owner |-> [Properties("Root", "owner", "object") EXCEPT
                           !.objectType = Factory("Profile")],
             extra |-> Properties("Root", "extra", "object")])
        EXCEPT !.options = options]

\* { title: {type: String, maxLength: 5}, notes: [String] }, under the given options
HookSchema(options) ==
    [Schema(<<"title", "notes">>,
            [title |-> [Properties("Root", "title", "string") EXCEPT !.maxLength = Num(5)],
             notes |-> [Properties("Root", "notes", "array") EXCEPT
                           !.arrayType = ElementProperties("Root", "notes", "string")]])
        EXCEPT !.options = options]

\* { title: {type: String, maxLength: 5} }, with the options
\* { methods: { greet, describe, plain }, constructors: { make } }
BaseSchema ==
    [Schema(<<"title">>,
            [title |-> [Properties("Root", "title", "string") EXCEPT !.maxLength = Num(5)]])
        EXCEPT !.options.methods = [greet |-> Implementation("Root", "methods", "greet"),
                                    describe |-> Implementation("Root", "methods", "describe"),
                                    plain |-> Implementation("Root", "methods", "plain")],
               !.options.constructors = [default |-> DefaultConstructor,
                                         make |-> Implementation("Root", "constructors", "make")]]

\* The schemas an extension adds: none, a new field { nick: String }, and a tighter
\* { title: {maxLength: 3} }.
ExtendSchemas ==
    {[keys |-> <<>>, fields |-> <<>>],
     [keys |-> <<"nick">>, fields |-> [nick |-> Properties("Child", "nick", "string")]],
     [keys |-> <<"title">>,
      fields |-> [title |-> [Properties("Child", "title", "string") EXCEPT !.maxLength = Num(3)]]]}

\* The options an extension adds: { methods: { greet, describe }, constructors: { make } }
\* and { strict: false, methods: { greet, extra } }.
ExtendOptions ==
    {[methods |-> [greet |-> Implementation("Child", "methods", "greet"),
                   describe |-> Implementation("Child", "methods", "describe")],
      constructors |-> [make |-> Implementation("Child", "constructors", "make")]],
     [strict |-> FALSE,
      methods |-> [greet |-> Implementation("Child", "methods", "greet"),
                   extra |-> Implementation("Child", "methods", "extra")]]}

\* { born: Date, until: Date }
DateSchema ==
    Schema(<<"born", "until">>,
           [born |-> Properties("Root", "born", "date"),
            until |-> Properties("Root", "until", "date")])

\* { title: {type: String, maxLength: 5} }, with the strict option as given
LooseSchema(strict) ==
    [Schema(<<"title">>,
            [title |-> [Properties("Root", "title", "string") EXCEPT !.maxLength = Num(5)]])
        EXCEPT !.options.strict = strict]

\* { motto: {type: String, default: 'hello'}, count: Number, since: Date,
\*   notes: [String], memo: {type: 'alias', index: 'notes'},
\*   team: [Profile], boss: Profile }
SerialSchema ==
    Schema(<<"motto", "count", "since", "notes", "memo", "team", "boss">>,
           [motto |-> [Properties("Root", "motto", "string") EXCEPT !.default = Str(shello)],
            count |-> Properties("Root", "count", "number"),
            since |-> Properties("Root", "since", "date"),
            notes |-> [Properties("Root", "notes", "array") EXCEPT
                          !.arrayType = ElementProperties("Root", "notes", "string")],
            memo |-> [Properties("Root", "memo", "alias") EXCEPT !.index = Text("notes")],
            team |-> [Properties("Root", "team", "array") EXCEPT
                         !.arrayType = [ElementProperties("Root", "team", "object") EXCEPT
                                           !.objectType = Factory("Profile")]],
            boss |-> [Properties("Root", "boss", "object") EXCEPT
                         !.objectType = Factory("Profile")]])

\* { id: {type: String, readOnly: true, default: 'Ann'}, rank: {type: Number, readOnly: true},
\*   key: {type: 'alias', index: 'id'}, motto: {type: String, default: 'hello'},
\*   notes: [String], boss: Profile }
DefaultsSchema ==
    Schema(<<"id", "rank", "key", "motto", "notes", "boss">>,
           [id |-> [Properties("Root", "id", "string") EXCEPT
                       !.readOnly = Bool(TRUE), !.default = Str(sAnn)],
            rank |-> [Properties("Root", "rank", "number") EXCEPT !.readOnly = Bool(TRUE)],
            key |-> [Properties("Root", "key", "alias") EXCEPT !.index = Text("id")],
            motto |-> [Properties("Root", "motto", "string") EXCEPT !.default = Str(shello)],
            notes |-> [Properties("Root", "notes", "array") EXCEPT
                          !.arrayType = ElementProperties("Root", "notes", "string")],
            boss |-> [Properties("Root", "boss", "object") EXCEPT
                         !.objectType = Factory("Profile")]])

\* The values written to a field of the model, by index.
Inputs(index) ==
    CASE index = "age" ->
            {Str(s15), Str(sMinus1), Str(sabc), Str(sEmpty), Num(121), Bool(TRUE), Bool(FALSE),
             Null, Undefined, List(<<>>), Obj(<<>>)}
      [] index \in {"name", "nick"} ->
            {Str(sAnn), Str(sB), Str(sBo), Str(sBob), Str(sAnnabel), Null, Undefined, List(<<>>)}
      [] index = "flag" ->
            {Bool(TRUE), Str(sfalse), Num(0), Str(sEmpty)}
      [] index = "code" ->
            {Str(sAnn), Str(sB), Str(sAnnabel), Str(sBarbara), Str(sZ)}
      [] index = "title" ->
            {Str(shello), Str(stoolong), List(<<>>), Undefined}
      [] index = "headline" ->
            {Str(shello), List(<<>>), Undefined}
      [] index = "born" ->
            {Str(s1970), Str(sabc), List(<<>>), Undefined}
      [] index = "tags" ->
            {List(<<Str(shello)>>), List(<<Str(shello), Str(stoolong)>>), List(<<>>), Str(sAnn)}
      [] index = "labels" ->
            {List(<<Str(sAnn)>>)}
      [] index \in {"id", "key"} ->
            {Str(sB), Undefined, List(<<>>)}
      [] index = "rank" ->
            {Num(7), Str(sabc)}
      [] index = "motto" ->
            {Str(sAnn), Undefined}
      [] index = "count" ->
            {Str(s15), Num(0)}
      [] index = "since" ->
            {Str(s1970)}
      [] index = "until" ->
            {Str(s1970), Num(15), Str(sAnn), Bool(TRUE), Obj(<<>>), Null, Str(sEmpty)}
      [] index = "team" ->
            {List(<<Obj(<<[k |-> "name", v |-> Str(sAnn)]>>), Obj(<<>>)>>)}
      [] index = "notes" ->
            {List(<<Str(shello)>>), List(<<Str(shello), Str(sAnn)>>)}
      [] index = "memo" ->
            {List(<<Str(sAnn)>>)}
      [] index = "boss" ->
            {Obj(<<[k |-> "name", v |-> Str(sAnn)]>>), Str(sAnn)}
      [] index = "items" ->
            {List(<<Str(shello)>>), Str(sAnn), Null, Undefined}
      [] index = "owner" ->
            {Obj(<<[k |-> "name", v |-> Str(sAnn)]>>), Str(sAnn), Null, Undefined}
      [] index = "extra" ->
            {Obj(<<[k |-> "k", v |-> Str(sAnn)]>>), Num(0), Null, Undefined}
      [] index = "words" ->
            {List(<<Str(shello), Null>>), List(<<>>), Str(sAnn)}
      [] index = "nums" ->
            {List(<<Str(s15), Num(15), Num(7)>>), List(<<Str(sEmpty)>>)}
      [] index = "profile" ->
            {Obj(<<[k |-> "name", v |-> Str(sAnn)]>>), Obj(<<>>), Str(sAnn)}
      [] index = "who" ->
            {Obj(<<[k |-> "name", v |-> Str(sAnn)]>>)}
      [] OTHER -> {Str(sAnn)}

\* The keys a caller writes: the declared indexes and one undeclared key.
WriteKeys == DOMAIN schemas.Root.fields \cup {"other"}

Entry(k, v) == [k |-> k, v |-> v]

\* The objects passed to populate and to the constructor.
AllBatches ==
    {Obj(<<>>),
     Obj(<<Entry("age", Str(s15)), Entry("name", Str(sAnn))>>),
     Obj(<<Entry("name", Str(sBob)), Entry("age", Str(s15))>>),
     Obj(<<Entry("age", Str(sabc)), Entry("flag", Bool(TRUE))>>),
     Obj(<<Entry("nick", Str(sAnn)), Entry("other", Str(sAnn))>>),
     Obj(<<Entry("id", Str(sB)), Entry("rank", Num(7)), Entry("motto", Str(sAnn))>>),
     Obj(<<Entry("key", Str(sB)), Entry("motto", List(<<>>)), Entry("rank", Str(sabc))>>),
     Obj(<<Entry("tags", List(<<Str(shello), Str(stoolong)>>)), Entry("title", Str(shello))>>),
     Obj(<<Entry("title", Str(stoolong)), Entry("born", Str(s1970))>>),
     Obj(<<Entry("born", Str(s1970)), Entry("title", Str(stoolong))>>),
     Obj(<<Entry("profile", Obj(<<Entry("name", Str(sAnn))>>)), Entry("tags", List(<<Str(shello)>>))>>)}

\* The argument lists of push.
PushArgs == {<<Str(shello)>>, <<Str(stoolong)>>, <<Str(sAnn), Str(stoolong)>>, <<Str(sAnn), Str(shello)>>}

\* The argument lists of push on the wrapper of field index.
PushInputs(index) ==
    CASE index = "words" -> {<<Str(shello)>>, <<Null>>, <<Str(sAnn), Undefined>>}
      [] index = "nums" -> {<<Str(s15)>>, <<Num(7), Num(7)>>, <<Num(15), Str(s15)>>, <<Str(sEmpty)>>}
      [] OTHER -> PushArgs

Batches == {b \in AllBatches : \A i \in 1..Len(b.o) : b.o[i].k \in WriteKeys}

----------------------------------------------------------------------------
(* Operations on the observed instance.  last records the operation taken  *)
(* and whether it threw to its caller.                                      *)

Done(op, index, threw) == [op |-> op, index |-> index, threw |-> threw]

\* The observed instance after an operation with outcome r.
Becomes(r, op, index) ==
    /\ schemas' = r.schemas
    /\ inst' = r.inst
    /\ last' = Done(op, index, r.thrown)
    /\ peer' = peer
    /\ UNCHANGED <<reserved, frames>>

\* The older instance after an operation on it with outcome r.
PeerBecomes(r, op, index) ==
    /\ schemas' = r.schemas
    /\ peer' = r.inst
    /\ last' = Done(op, index, r.thrown)
    /\ inst' = inst
    /\ UNCHANGED <<reserved, frames>>

\* An outcome that did not throw.
Returned(r) == [schemas |-> r.schemas, inst |-> r.inst, thrown |-> FALSE]

\* instance[index] = value
Write(index, value) ==
    /\ Len(inst.errors) < MaxErrors
    /\ Becomes(Returned(Call("ProxySet", <<schemas, "Root", inst, index, value>>)), "write", index)

\* instance.populate(values)
Populate(values) ==
    /\ Len(inst.errors) < MaxErrors
    /\ Becomes(Returned(Call("populate", <<schemas, "Root", inst, values>>)), "populate", "")

\* instance.clear()
Clear == Becomes(Call("clear", <<schemas, "Root", inst>>), "clear", "")

\* instance[index], read for its value
Read(index) ==
    Becomes(Returned(Call("defineGetter", <<schemas, "Root", inst, index>>)), "read", index)

\* new Root(values): the observed instance is from now on the new one.
Construct(values) ==
    Becomes(Returned(Call("SchemaObjectInstance", <<schemas, "Root", values>>)), "construct", "")

\* instance[index].push(...args)
Push(index, args) ==
    /\ Len(Elements(Lookup(inst.obj, index))) < MaxLen
    /\ Len(inst.errors) < MaxErrors
    /\ Becomes(Call("pushTo", <<schemas, "Root", inst, index, args>>), "push", index)

\* `${prefix}.` k times before name.
RECURSIVE Prefixed(_, _, _)
Prefixed(prefix, name, k) ==
    IF k = 0 THEN name ELSE prefix \o "." \o Prefixed(prefix, name, k - 1)

\* instance.getErrors(), for the list it returns
GetErrors ==
    /\ \E k \in 0..(MaxPrefix - 1) :
           schemas.Profile.fields.name.name = Text(Prefixed("profile", "name", k))
    /\ Becomes(Returned(Call("getErrors", <<schemas, "Root", inst>>)), "getErrors", "")

\* instance[index][name] = value
WriteNested(index, name, value) ==
    /\ Len(inst.errors) < MaxErrors
    /\ Becomes(Returned(Call("writeNested", <<schemas, "Root", inst, index, name, value>>)),
               "writeNested", index)

\* instance.toObject(), for the snapshot it returns
ToObject ==
    Becomes(Returned(Call("toObject", <<schemas, "Root", inst>>)), "toObject", "")

\* instance.clone(): the observed instance is from now on the clone.
Clone ==
    Becomes(Returned(Call("clone", <<schemas, "Root", inst>>)), "clone", "")

InitWith(S) ==
    LET r == Call("SchemaObjectInstance", <<S, "Root", Obj(<<>>)>>)
    IN /\ schemas = r.schemas
       /\ inst = r.inst
       /\ last = Done("construct", "", FALSE)
       /\ peer = Undefined
       /\ reserved = NoReserved
       /\ frames = <<>>

----------------------------------------------------------------------------
(* The scalar specification: number, string, boolean and alias fields.      *)

InitScalar == InitWith([Root |-> ScalarSchema, Profile |-> ProfileSchema])

NextScalar ==
    \/ \E index \in WriteKeys : \E value \in Inputs(index) : Write(index, value)
    \/ \E values \in Batches : Populate(values)
    \/ Clear
    \/ \E index \in DOMAIN schemas.Root.fields : Read(index)
    \/ \E values \in Batches : Construct(values)

SpecScalar == InitScalar /\ [][NextScalar]_vars

----------------------------------------------------------------------------
(* The string specification: one string field, declared in every            *)
(* combination of its constraints' forms.                                   *)

InitString == \E schema \in StringSchemas : InitWith([Root |-> schema, Profile |-> ProfileSchema])

SpecString == InitString /\ [][NextScalar]_vars

----------------------------------------------------------------------------
(* The specification of the array, object, date and alias fields.           *)

Init == InitWith([Root |-> RootSchema, Profile |-> ProfileSchema])

Next ==
    \/ \E index \in WriteKeys : \E value \in Inputs(index) : Write(index, value)
    \/ \E values \in Batches : Populate(values)
    \/ \E index \in DOMAIN schemas.Root.fields : Read(index)
    \/ \E values \in Batches : Construct(values)
    \/ \E args \in PushArgs : Push("tags", args)

Spec == Init /\ [][Next]_vars

----------------------------------------------------------------------------
(* The array specification: a wrapper of strings and a unique wrapper of    *)
(* numbers, filled by push and by assignment.                               *)

InitArray == InitWith([Root |-> ArraySchema, Profile |-> ProfileSchema])

NextArray ==
    \/ \E index \in WriteKeys : \E value \in Inputs(index) : Write(index, value)
    \/ \E index \in DOMAIN schemas.Root.fields : Read(index)
    \/ \E index \in DOMAIN schemas.Root.fields : \E args \in PushInputs(index) : Push(index, args)
    \/ Clear

SpecArray == InitArray /\ [][NextArray]_vars

----------------------------------------------------------------------------
(* The object specification: an array field, a schema-typed object field    *)
(* and a plain object field, with null converted to absent (the default)    *)
(* and with null preserved.                                                 *)

InitObject ==
    \E preserveNull \in BOOLEAN :
        InitWith([Root |-> ObjectSchema([DefaultOptions EXCEPT !.preserveNull = preserveNull]),
                  Profile |-> ProfileSchema])

NextObject ==
    \/ \E index \in WriteKeys : \E value \in Inputs(index) : Write(index, value)
    \/ \E index \in DOMAIN schemas.Root.fields : Read(index)
    \/ Clear
    \/ \E values \in {Obj(<<>>), Obj(<<Entry("items", Null), Entry("owner", Null)>>)} :
           Construct(values)

SpecObject == InitObject /\ [][NextObject]_vars

----------------------------------------------------------------------------
(* The serialization specification: scalar fields (one with a default), an  *)
(* array of strings and its alias, an array of nested instances and a       *)
(* nested instance, serialized and cloned.                                  *)

InitSerial == InitWith([Root |-> SerialSchema, Profile |-> ProfileSchema])

NextSerial ==
    \/ \E index \in DOMAIN schemas.Root.fields : \E value \in Inputs(index) : Write(index, value)
    \/ ToObject
    \/ Clone

SpecSerial == InitSerial /\ [][NextSerial]_vars

----------------------------------------------------------------------------
(* The defaults specification: read-only fields with and without a default, *)
(* an alias of one, a writable field with a default, an array and a nested  *)
(* instance, written, populated, cleared and constructed anew.              *)

InitDefaults == InitWith([Root |-> DefaultsSchema, Profile |-> ProfileSchema])

NextDefaults ==
    \/ \E index \in WriteKeys : \E value \in Inputs(index) : Write(index, value)
    \/ \E values \in Batches : Populate(values)
    \/ \E value \in {Str(sAnn), Undefined} : WriteNested("boss", "name", value)
    \/ Clear
    \/ \E values \in Batches : Construct(values)

SpecDefaults == InitDefaults /\ [][NextDefaults]_vars

----------------------------------------------------------------------------
(* The nested specification: a required field of the instance and a         *)
(* required field of its nested schema-typed field.                         *)

InitNested == InitWith([Root |-> NestedSchema, Profile |-> ProfileSchema])

NextNested ==
    \/ \E index \in WriteKeys : \E value \in Inputs(index) : Write(index, value)
    \/ \E value \in {Str(sAnn), Undefined} : WriteNested("profile", "name", value)
    \/ \E index \in DOMAIN schemas.Root.fields : Read(index)
    \/ GetErrors
    \/ \E values \in Batches : Construct(values)

SpecNested == InitNested /\ [][NextNested]_vars

----------------------------------------------------------------------------
(* The date specification: two date fields.                                 *)

InitDate == InitWith([Root |-> DateSchema, Profile |-> ProfileSchema])

NextDate ==
    \/ \E index \in WriteKeys : \E value \in Inputs(index) : Write(index, value)
    \/ \E index \in DOMAIN schemas.Root.fields : Read(index)
    \/ Clear
    \/ Construct(Obj(<<Entry("born", Str(s1970)), Entry("until", Str(sabc))>>))

SpecDate == InitDate /\ [][NextDate]_vars

----------------------------------------------------------------------------
(* The write hooks: a string field and an array field, under options with  *)
(* or without onBeforeValueSet (one that cancels nothing, one that cancels  *)
(* the values of Vetoed) and onValueSet.  The record of the hook calls is   *)
(* started anew with each operation.                                        *)

Vetoed == {Str(shello), SchemaArrayOf(<<Str(shello)>>)}

\* The schemas with the record of hook calls emptied.
Quiet(S) == [F \in DOMAIN S |-> [S[F] EXCEPT !.calls = <<>>]]

\* instance[index] = value
WriteHooked(index, value) ==
    /\ Len(inst.errors) < MaxErrors
    /\ Becomes(Returned(Call("ProxySet", <<Quiet(schemas), "Root", inst, index, value>>)),
               "write", index)

\* instance[index], read for its value
ReadHooked(index) ==
    Becomes(Returned(Call("defineGetter", <<Quiet(schemas), "Root", inst, index>>)), "read", index)

\* instance.clear()
ClearHooked == Becomes(Call("clear", <<Quiet(schemas), "Root", inst>>), "clear", "")

InitHooks ==
    \E before \in {Undefined, Hook({}), Hook(Vetoed)} : \E after \in {Undefined, Hook({})} :
        InitWith([Root |-> HookSchema([DefaultOptions EXCEPT !.onBeforeValueSet = before,
                                                             !.onValueSet = after]),
                  Profile |-> ProfileSchema])

NextHooks ==
    \/ \E index \in WriteKeys : \E value \in Inputs(index) : WriteHooked(index, value)
    \/ \E index \in DOMAIN schemas.Root.fields : ReadHooked(index)
    \/ ClearHooked

SpecHooks == InitHooks /\ [][NextHooks]_vars

----------------------------------------------------------------------------
(* The undeclared key: one declared string field, the key other that the   *)
(* schema does not declare, and the strict option on or off.                *)

\* The values written to the undeclared key.
LooseValues ==
    {Str(sAnn), Str(sEmpty), Num(0), Null, Undefined, List(<<>>), List(<<Str(sAnn)>>),
     Obj(<<>>), Obj(<<Entry("name", Str(sAnn))>>)}

\* instance[name], for any key
ReadKey(name) ==
    Becomes(Returned(Call("ProxyGet", <<schemas, "Root", inst, name>>)), "read", name)

InitLoose ==
    \E strict \in BOOLEAN : InitWith([Root |-> LooseSchema(strict), Profile |-> ProfileSchema])

NextLoose ==
    \/ \E value \in Inputs("title") : Write("title", value)
    \/ \E value \in LooseValues : Write("other", value)
    \/ \E name \in WriteKeys : ReadKey(name)
    \/ ToObject
    \/ Clear
    \/ Construct(Obj(<<>>))

SpecLoose == InitLoose /\ [][NextLoose]_vars

----------------------------------------------------------------------------
(* Two instances of one factory: the older one, peer, was constructed and   *)
(* its profile read before the observed one was constructed and its profile *)
(* read.  The steps on the peer are those that work on the descriptors the  *)
(* shared schema holds at the time of the call, or on descriptors no step   *)
(* changes (those of Root).                                                 *)

PeerOps == {"peer.write", "peer.clear", "peer.getErrors"}

\* peer.headline = value
PeerWrite(index, value) ==
    /\ Len(peer.errors) < MaxErrors
    /\ PeerBecomes(Returned(Call("ProxySet", <<schemas, "Root", peer, index, value>>)),
                   "peer.write", index)

\* peer.clear()
PeerClear == PeerBecomes(Call("clear", <<schemas, "Root", peer>>), "peer.clear", "")

\* peer.getErrors()
PeerGetErrors ==
    /\ \E k \in 0..(MaxPrefix - 1) :
           schemas.Profile.fields.name.name = Text(Prefixed("profile", "name", k))
    /\ PeerBecomes(Returned(Call("getErrors", <<schemas, "Root", peer>>)), "peer.getErrors", "")

InitPair ==
    LET A == Call("SchemaObjectInstance",
                  <<[Root |-> NestedSchema, Profile |-> ProfileSchema], "Root", Obj(<<>>)>>)
        readA == Call("defineGetter", <<A.schemas, "Root", A.inst, "profile">>)
        B == Call("SchemaObjectInstance", <<readA.schemas, "Root", Obj(<<>>)>>)
        readB == Call("defineGetter", <<B.schemas, "Root", B.inst, "profile">>)
    IN /\ schemas = readB.schemas
       /\ peer = readA.inst
       /\ inst = readB.inst
       /\ last = Done("read", "profile", FALSE)
       /\ reserved = NoReserved
       /\ frames = <<>>

NextPair ==
    \/ \E value \in Inputs("headline") : Write("headline", value)
    \/ \E value \in {Str(sAnn), Undefined} : WriteNested("profile", "name", value)
    \/ GetErrors
    \/ \E value \in Inputs("headline") : PeerWrite("headline", value)
    \/ PeerClear
    \/ PeerGetErrors

SpecPair == InitPair /\ [][NextPair]_vars

----------------------------------------------------------------------------
(* Observations used by the properties *)

\* The value read from field index of the observed instance.
ReadValue(S, I, index) == defineGetter(S, "Root", I, index).value

\* The state after instance[index] = value.
AfterWrite(index, value) == ProxySet(schemas, "Root", inst, index, value)

\* The Error records a step from log before to log after appended.
Appended(before, after) == SubSeq(after, Len(before) + 1, Len(after))

\* The error codes of a list of Error records.
Codes(errors) == [i \in 1..Len(errors) |-> errors[i].errorCode]

\* The Typecast Engine rejects value for field index: the typecast the setter of the
\* field makes, on the value the field reads, throws.
Rejects(index, value) ==
    LET read == defineGetter(schemas, "Root", inst, index)
    IN typecast(read.schemas, value, read.value, read.schemas.Root.fields[index]).thrown

\* The types of a declared field other than an alias.
FieldTypes == {"string", "number", "boolean", "date", "array", "object"}

----------------------------------------------------------------------------
(* C1 *)

\* C1: in every reachable state, a write to a declared field that is not read-only, of
\* any type, whose input the Typecast Engine rejects appends exactly one Error record to
\* the error log and leaves the value read from the field as it was before the write.
\* (The write never throws: the setter catches what the engine throws.)
C1_RejectedWriteKeepsValue ==
    \A index \in DOMAIN schemas.Root.fields :
        LET properties == schemas.Root.fields[index]
        IN properties.type \in FieldTypes /\ ~Truthy(properties.readOnly) =>
              \A v \in {x \in Inputs(index) : Rejects(index, x)} :
                  LET after == AfterWrite(index, v)
                  IN /\ Len(after.inst.errors) = Len(inst.errors) + 1
                     /\ ReadValue(after.schemas, after.inst, index)
                            = ReadValue(schemas, inst, index)

----------------------------------------------------------------------------
(* C2 *)

\* v is in the enum list, within the length bounds and matches the pattern of properties.
SatisfiesString(properties, v) ==
    /\ v.t = "string"
    /\ properties.enum # Undefined => \E i \in 1..Len(properties.enum.a) : properties.enum.a[i] = v
    /\ properties.minLength # Undefined => Len(v.s) >= properties.minLength.n
    /\ properties.maxLength # Undefined => Len(v.s) <= properties.maxLength.n
    /\ properties.regex # Undefined =>
          /\ Len(v.s) >= Len(properties.regex.prefix)
          /\ \A i \in 1..Len(properties.regex.prefix) : v.s[i] = properties.regex.prefix[i]

SatisfiesNumber(properties, v) ==
    /\ v.t = "number"
    /\ properties.min # Undefined => properties.min.n <= v.n
    /\ properties.max # Undefined => v.n <= properties.max.n

\* C2: in every reachable state the value stored for a number, string or boolean field is
\* absent, or a value of the declared type that satisfies every declared constraint
\* (min <= n <= max; in enum, minLength <= length <= maxLength, matching regex; true/false).
C2_StoredScalarsAreCanonical ==
    \A index \in DOMAIN schemas.Root.fields :
        LET properties == schemas.Root.fields[index]
            v == Lookup(inst.obj, index)
        IN \/ v = Undefined
           \/ properties.type = "number" /\ SatisfiesNumber(properties, v)
           \/ properties.type = "string" /\ SatisfiesString(properties, v)
           \/ properties.type = "boolean" /\ v \in {Bool(TRUE), Bool(FALSE)}

\* Every scalar field holds a value, and a write has been rejected on the way.
C2_Witness ==
    /\ Lookup(inst.obj, "age") = Num(15)
    /\ Lookup(inst.obj, "name") = Str(sAnn)
    /\ Lookup(inst.obj, "flag") = Bool(FALSE)
    /\ Len(inst.errors) = 1

----------------------------------------------------------------------------
(* C3 *)

\* C3: in every reachable state and for every batch, populate leaves each declared key of
\* the batch as an individual write of that key would: an accepted key reads as after
\* that write, a rejected key reads as before, and the error log grows by exactly one
\* error for each rejected key.  (populate never throws: each setter catches.)
C3_PopulatePartialFailure ==
    \A values \in Batches :
        LET after == populate(schemas, "Root", inst, values)
            entries == {e \in {values.o[i] : i \in 1..Len(values.o)} :
                           e.k \in DOMAIN schemas.Root.fields}
            rejected == {e \in entries : Rejects(e.k, e.v)}
        IN /\ Len(after.inst.errors) = Len(inst.errors) + Cardinality(rejected)
           /\ \A e \in entries :
                  LET alone == AfterWrite(e.k, e.v)
                  IN ReadValue(after.schemas, after.inst, e.k)
                        = IF e \in rejected THEN ReadValue(schemas, inst, e.k)
                          ELSE ReadValue(alone.schemas, alone.inst, e.k)

----------------------------------------------------------------------------
(* C4 *)

\* The missing-field errors (code 1000) of a getErrors() list for the required field with
\* descriptor ref.
MissingFor(errors, ref) ==
    {i \in 1..Len(errors) : errors[i].errorCode = 1000 /\ errors[i].ref = ref}

\* The value of the nested field name of field index, read through the parent.
NestedRead(S, I, index, name) ==
    LET read == defineGetter(S, "Root", I, index)
    IN defineGetter(read.schemas, read.value.factory, InstanceOf(read.value), name).value

\* C4: in every reachable state getErrors() reports exactly one missing-field error for a
\* required field whose current value is absent and none for one whose value is present,
\* and none once a qualifying value has been assigned to the field; for the required
\* field headline of the instance and for the required field name of its nested field
\* profile.
C4_RequiredDetection ==
    LET headline == schemas.Root.fields.headline.ref
        name == schemas.Profile.fields.name.ref
        reported(r) == getErrors(r.schemas, "Root", r.inst).errors
        now == [schemas |-> schemas, inst |-> inst]
        top == AfterWrite("headline", Str(shello))
        nested == writeNested(schemas, "Root", inst, "profile", "name", Str(sAnn))
    IN /\ Cardinality(MissingFor(reported(now), headline))
             = IF ReadValue(schemas, inst, "headline") = Undefined THEN 1 ELSE 0
       /\ Cardinality(MissingFor(reported(now), name))
             = IF NestedRead(schemas, inst, "profile", "name") = Undefined THEN 1 ELSE 0
       /\ MissingFor(reported(top), headline) = {}
       /\ MissingFor(reported(nested), name) = {}

----------------------------------------------------------------------------
(* C5 *)

\* C5: in every reachable state and for every input v, writing v to an alias field leaves
\* its target with the same stored value, and the error log with the same appended
\* errors, as writing v to the target itself.
C5_AliasWriteEquivalence ==
    \A alias \in DOMAIN schemas.Root.fields :
        schemas.Root.fields[alias].type = "alias" =>
            LET target == schemas.Root.fields[alias].index.text
            IN \A v \in Inputs(alias) :
                  LET viaAlias == AfterWrite(alias, v)
                      direct == AfterWrite(target, v)
                  IN /\ Lookup(viaAlias.inst.obj, target) = Lookup(direct.inst.obj, target)
                     /\ Appended(inst.errors, viaAlias.inst.errors)
                            = Appended(inst.errors, direct.inst.errors)

\* A write through the alias nick has stored its value in the target name.
C5_Witness ==
    /\ last.op = "write" /\ last.index = "nick"
    /\ Lookup(inst.obj, "name") = Str(sAnn)
    /\ inst.errors = <<>>

----------------------------------------------------------------------------
(* C6 *)

\* C6: in every reachable state the raw value store has no entry under the name of an
\* alias field, and reading the alias returns the same value as reading its target.
C6_AliasReadsItsTarget ==
    \A alias \in DOMAIN schemas.Root.fields :
        schemas.Root.fields[alias].type = "alias" =>
            /\ alias \notin DOMAIN inst.obj
            /\ ReadValue(schemas, inst, alias)
                   = ReadValue(schemas, inst, schemas.Root.fields[alias].index.text)

----------------------------------------------------------------------------
(* C7 *)

\* What the claim says of a write of v to the number field age (min 0, max 120): the
\* value read afterwards (Undefined: absent; "same": the value read before the write)
\* and the code of the one error appended (0: none).
C7_Expected(v) ==
    CASE v \in {Str(s15), Num(15)} -> [read |-> Num(15), code |-> 0]
      [] v = Bool(TRUE) -> [read |-> Num(1), code |-> 0]
      [] v = Bool(FALSE) -> [read |-> Num(0), code |-> 0]
      [] v \in {Null, Undefined, Str(sEmpty)} -> [read |-> Undefined, code |-> 0]
      [] v = Str(sMinus1) -> [read |-> "same", code |-> 1221]
      [] v = Num(121) -> [read |-> "same", code |-> 1222]
      [] v \in {Str(sabc), List(<<>>), Obj(<<>>)} -> [read |-> "same", code |-> 1102]

\* C7: in every reachable state, a write to the number field reads back as the claim
\* says: a number or numeric string in [min, max] as that number, a boolean as 1 or 0,
\* null, undefined and "" as absent, each with no error; a value below min logs one
\* error 1221, above max one error 1222, a non-numeric string, array or object one error
\* 1102, and the field then reads as before.
C7_NumberWriteThenRead ==
    \A v \in Inputs("age") \cup {Num(15)} :
        LET after == AfterWrite("age", v)
            expected == C7_Expected(v)
            logged == Codes(Appended(inst.errors, after.inst.errors))
            read == ReadValue(after.schemas, after.inst, "age")
        IN IF expected.code = 0
           THEN logged = <<>> /\ read = expected.read
           ELSE logged = <<expected.code>> /\ read = ReadValue(schemas, inst, "age")

\* The write of Scenario A: age reads 15 and a later write has been rejected.
C7_Witness ==
    /\ last.op = "write" /\ last.index = "age"
    /\ Lookup(inst.obj, "age") = Num(15)
    /\ Codes(inst.errors) = <<1221>>

----------------------------------------------------------------------------
(* C8 *)

\* A constraint as declared: whether it is declared, its value, and the custom message
\* when it is declared as the pair [value, customMessage].
C8_Declared(properties, key) ==
    LET c == properties[key]
        pair == isArray(c) /\ (key = "enum" => isArray(c.a[1]))
    IN [declared |-> c # Undefined,
        value |-> IF pair THEN c.a[1] ELSE c,
        custom |-> pair,
        message |-> IF pair THEN c.a[2].text ELSE ""]

\* The string s violates the declared constraint key.
C8_Violates(properties, key, s) ==
    LET c == C8_Declared(properties, key)
    IN /\ c.declared
       /\ CASE key = "enum" -> \A i \in 1..Len(c.value.a) : c.value.a[i] # Str(s)
            [] key = "minLength" -> Len(s) < c.value.n
            [] key = "maxLength" -> Len(s) > c.value.n
            [] key = "regex" -> \/ Len(s) < Len(c.value.prefix)
                                \/ \E i \in 1..Len(c.value.prefix) : s[i] # c.value.prefix[i]

\* The checks in the order of the claim, each with its error code and default message.
C8_Checks ==
    << [key |-> "enum", code |-> 1211, default |-> "String does not exist in enum list."],
       [key |-> "minLength", code |-> 1212,
        default |-> "String length too short to meet minLength requirement."],
       [key |-> "maxLength", code |-> 1213,
        default |-> "String length too long to meet maxLength requirement."],
       [key |-> "regex", code |-> 1214,
        default |-> "String does not match regular expression pattern."] >>

\* The checks s violates, in that order.
C8_Failures(properties, s) ==
    SelectSeq(C8_Checks, LAMBDA check : C8_Violates(properties, check.key, s))

----------------------------------------------------------------------------
(* C9 *)

\* C9: in every reachable state, for a string field with maxLength n declared bare or as
\* a pair and a written string longer than n: with clip enabled (and the first n
\* characters passing the other constraints) the field then reads exactly the first n
\* characters and no error is logged; with clip not declared (and no other constraint
\* violated) exactly one max-length error (1213) is logged and the field reads as before.
C9_ClipStoresPrefix ==
    \A index \in DOMAIN schemas.Root.fields :
        LET properties == schemas.Root.fields[index]
            n == C8_Declared(properties, "maxLength").value.n
        IN properties.type = "string" /\ properties.maxLength # Undefined =>
              \A v \in {x \in Inputs(index) : x.t = "string" /\ Len(x.s) > n} :
                  LET after == AfterWrite(index, v)
                      appended == Appended(inst.errors, after.inst.errors)
                      read == ReadValue(after.schemas, after.inst, index)
                      prefix == SubSeq(v.s, 1, n)
                  IN /\ properties.clip = Bool(TRUE) /\ C8_Failures(properties, prefix) = <<>>
                        => appended = <<>> /\ read = Str(prefix)
                     /\ properties.clip = Undefined /\ Len(C8_Failures(properties, v.s)) = 1
                        => /\ Codes(appended) = <<1213>>
                           /\ read = ReadValue(schemas, inst, index)

----------------------------------------------------------------------------
(* C10 *)

\* C10: in every reachable state, push(v1..vn) on the wrapper of an array field with an
\* element descriptor does not raise, drops the candidates the element descriptor
\* rejects and appends the others, cast, in order: the length grows by the number of
\* accepted candidates.
C10_PushDropsRejected ==
    \A index \in DOMAIN schemas.Root.fields :
        LET properties == schemas.Root.fields[index]
            cast(v) == typecast(schemas, v, Undefined, properties.arrayType)
        IN properties.type = "array" /\ properties.arrayType # Undefined =>
              \A args \in PushArgs :
                  LET wrapper == ReadValue(schemas, inst, index)
                      accepted == SelectSeq(args, LAMBDA v : ~cast(v).thrown)
                      r == push(schemas, wrapper, args, properties)
                  IN /\ ~r.thrown
                     /\ r.array.a = wrapper.a \o [i \in 1..Len(accepted) |-> cast(accepted[i]).value]
                     /\ r.length = Len(wrapper.a) + Len(accepted)

----------------------------------------------------------------------------
(* C11 *)

\* The array fields of the observed instance that declare an element descriptor.
TypedArrayFields ==
    {index \in DOMAIN schemas.Root.fields :
        /\ schemas.Root.fields[index].type = "array"
        /\ schemas.Root.fields[index].arrayType # Undefined}

\* The element cast of the wrapper of field index produces no value for candidate v.
NoValue(index, v) ==
    LET cast == typecast(schemas, v, Undefined, schemas.Root.fields[index].arrayType)
    IN ~cast.thrown /\ cast.value = Undefined

\* C11: in every reachable state (after any pushes and array assignments) the wrapper of
\* an array field with an element descriptor holds no undefined element, and a push whose
\* candidates all cast to no value (null, undefined; the empty string for a number
\* element) appends nothing: the length stays as it was.
C11_NoAbsentElement ==
    \A index \in TypedArrayFields :
        LET wrapper == ReadValue(schemas, inst, index)
        IN /\ \A i \in 1..Len(wrapper.a) : wrapper.a[i] # Undefined
           /\ \A args \in PushInputs(index) :
                  (\A i \in 1..Len(args) : NoValue(index, args[i])) =>
                      LET r == push(schemas, wrapper, args, schemas.Root.fields[index])
                      IN ~r.thrown /\ r.length = Len(wrapper.a) /\ r.array = wrapper

----------------------------------------------------------------------------
(* C12 *)

\* No two elements of the list a are equal.
Distinct(a) == \A i, j \in 1..Len(a) : i # j => a[i] # a[j]

\* C12: in every reachable state the elements of the wrapper of an array field declared
\* unique are pairwise distinct; they still are after one more push of any argument
\* list (also one that repeats a value), and a push of values that are all present
\* already leaves the length as it was.
C12_UniqueElementsDistinct ==
    \A index \in TypedArrayFields :
        Truthy(schemas.Root.fields[index].unique) =>
            LET wrapper == ReadValue(schemas, inst, index)
            IN /\ Distinct(wrapper.a)
               /\ \A args \in PushInputs(index) :
                      LET r == push(schemas, wrapper, args, schemas.Root.fields[index])
                          cast(v) == typecast(schemas, v, Undefined,
                                              schemas.Root.fields[index].arrayType).value
                      IN /\ ~r.thrown
                         /\ Distinct(r.array.a)
                         /\ (\A i \in 1..Len(args) : \E j \in 1..Len(wrapper.a) :
                                 wrapper.a[j] = cast(args[i]))
                            => r.length = Len(wrapper.a)

----------------------------------------------------------------------------
(* C13 *)

\* What a read of an object-typed or array-typed field may return: a Typed Array
\* Wrapper, a nested instance or a plain object.
Materialized(v) == v.t \in {"SchemaArray", "SchemaObject", "object"}

\* C13: in every reachable state (before any write, after clear(), after a rejected
\* write, after a write of null or undefined, with null preserved or not) a read of an
\* object-typed or array-typed field returns a wrapper, a nested instance or a plain
\* object, never null or undefined; and it still does right after one more write.
C13_ObjectAndArrayNeverAbsent ==
    \A index \in DOMAIN schemas.Root.fields :
        schemas.Root.fields[index].type \in {"object", "array"} =>
            /\ Materialized(ReadValue(schemas, inst, index))
            /\ \A v \in Inputs(index) :
                   LET after == AfterWrite(index, v)
                   IN Materialized(ReadValue(after.schemas, after.inst, index))

\* Null is preserved and has been written to the array field and to the nested field:
\* the raw store holds null for both.
C13_Witness ==
    /\ schemas.Root.options.preserveNull
    /\ Lookup(inst.obj, "items") = Null
    /\ Lookup(inst.obj, "owner") = Null
    /\ Lookup(inst.obj, "extra") = Null

----------------------------------------------------------------------------
(* C14 *)

\* The instance holds data in every field that declares a default.
HoldsData ==
    \A index \in DOMAIN schemas.Root.fields :
        schemas.Root.fields[index].default # Undefined =>
            ReadValue(schemas, inst, index) # Undefined

\* x.toObject(), then new F(that).toObject() and x.clone().toObject().
RoundTrip ==
    LET first == toObject(schemas, "Root", inst)
        again == SchemaObjectInstance(first.schemas, "Root", first.value)
        copy == clone(schemas, "Root", inst)
    IN [first |-> first.value,
        second |-> toObject(again.schemas, "Root", again.inst).value,
        cloned |-> toObject(copy.schemas, "Root", copy.inst).value]

\* C14 as stated: in every reachable state (the fields of the instance x hold only
\* valid data: scalars, an array and its alias, an array of nested instances, a nested
\* instance) the instance constructed from x.toObject() serializes to the same plain
\* object as x, and so does x.clone().
C14_RoundTripOfAnyInstance ==
    RoundTrip.second = RoundTrip.first /\ RoundTrip.cloned = RoundTrip.first

\* C14 as amended: the same, in every reachable state where each field of x that
\* declares a default holds a value.
C14_SerializationRoundTrip ==
    HoldsData => RoundTrip.second = RoundTrip.first /\ RoundTrip.cloned = RoundTrip.first

\* Every kind of field holds data and the instance has been cloned: the clone's
\* snapshot has the scalars, the array under its name and its alias's, the array of
\* nested instances and the nested instance.
C14_Witness ==
    /\ last.op = "clone"
    /\ toObject(schemas, "Root", inst).value
          = Obj(<< [k |-> "motto", v |-> Str(sAnn)], [k |-> "count", v |-> Num(0)],
                   [k |-> "since", v |-> DateOf(0)],
                   [k |-> "notes", v |-> List(<<Str(shello)>>)],
                   [k |-> "memo", v |-> List(<<Str(shello)>>)],
                   [k |-> "team", v |-> List(<<Obj(<<[k |-> "name", v |-> Str(sAnn)]>>), Obj(<<>>)>>)],
                   [k |-> "boss", v |-> Obj(<<[k |-> "name", v |-> Str(sAnn)]>>)] >>)

----------------------------------------------------------------------------
(* C15 *)

\* The read-only fields of the observed instance.
ReadOnlyFields ==
    {index \in DOMAIN schemas.Root.fields : Truthy(schemas.Root.fields[index].readOnly)}

\* The entries of the plain object values without those whose key is in keys.
Without(values, keys) == Obj(SelectSeq(values.o, LAMBDA e : e.k \notin keys))

\* C15: in every reachable state (a) each read-only descriptor has its readOnly flag set;
\* (b) a new instance, whatever initial values it is constructed with, holds in each
\* read-only field the cast value of the declared default, or nothing when none is
\* declared, and its descriptors are read-only again; (c) a write to a read-only field,
\* directly or through its alias, changes neither the raw store nor the error log, and
\* populate acts as if the keys of the read-only fields were not in the batch.
C15_ReadOnlyFields ==
    /\ ReadOnlyFields = {"id", "rank"}
    /\ \A values \in Batches :
           LET made == SchemaObjectInstance(schemas, "Root", values)
           IN \A index \in ReadOnlyFields :
                  LET properties == schemas.Root.fields[index]
                  IN /\ ReadValue(made.schemas, made.inst, index)
                          = IF properties.default = Undefined THEN Undefined
                            ELSE typecast(schemas, properties.default, Undefined, properties).value
                     /\ made.schemas.Root.fields[index].readOnly = Bool(TRUE)
    /\ \A index \in ReadOnlyFields \cup {"key"} : \A value \in Inputs(index) :
           AfterWrite(index, value).inst = inst
    /\ \A values \in Batches :
           populate(schemas, "Root", inst, values).inst
               = populate(schemas, "Root", inst, Without(values, ReadOnlyFields \cup {"key"})).inst

\* The instance was constructed with initial values for its read-only fields and holds
\* the default in id and nothing in rank, while the writable field took its value.
C15_Witness ==
    /\ last.op = "construct"
    /\ Lookup(inst.obj, "id") = Str(sAnn)
    /\ Lookup(inst.obj, "rank") = Undefined
    /\ Lookup(inst.obj, "motto") = Str(sAnn)

----------------------------------------------------------------------------
(* C16 *)

\* C16: no step (a field read or write, getErrors(), the construction of a further
\* instance) changes the compiled schema of a factory: neither its field names nor any
\* attribute of a Field Descriptor it holds.
C16_SchemaIsImmutable ==
    [][\A F \in DOMAIN schemas :
           /\ schemas'[F].keys = schemas[F].keys
           /\ schemas'[F].fields = schemas[F].fields]_vars

----------------------------------------------------------------------------
(* C17 *)

\* What the holder of instance I can observe of it: the value each field reads, the
\* errors getErrors() reports, and what the fields read after a write.
Observed(S, I) ==
    [reads |-> [index \in DOMAIN S.Root.fields |-> ReadValue(S, I, index)],
     name |-> NestedRead(S, I, "profile", "name"),
     errors |-> getErrors(S, "Root", I).errors,
     written |-> [value \in {Str(sAnn), Undefined} |->
                     LET w == writeNested(S, "Root", I, "profile", "name", value)
                     IN NestedRead(w.schemas, w.inst, "profile", "name")],
     top |-> [value \in Inputs("headline") |->
                 LET w == ProxySet(S, "Root", I, "headline", value)
                 IN <<ReadValue(w.schemas, w.inst, "headline"), w.inst.errors>>]]

\* C17: a step on the older instance (a write, clear(), getErrors()) changes neither a
\* value read from the observed instance, nor the errors it reports, nor the effect of
\* a later write on it.
C17_InstanceIsolation ==
    [][last'.op \in PeerOps => Observed(schemas', inst') = Observed(schemas, inst)]_vars

----------------------------------------------------------------------------
(* C18 *)

\* The value toObject() gives for key, or Undefined when the snapshot has no such key.
Snapshot(S, I, key) ==
    LET entries == toObject(S, "Root", I).value.o
    IN IF \E i \in 1..Len(entries) : entries[i].k = key
       THEN (CHOOSE e \in {entries[i] : i \in 1..Len(entries)} : e.k = key).v
       ELSE Undefined

HasKey(S, I, key) ==
    \E i \in 1..Len(toObject(S, "Root", I).value.o) : toObject(S, "Root", I).value.o[i].k = key

\* toObject() leaves out a field that reads undefined or an empty array or object.
LeftOut(value) == value = Undefined \/ (isObject(value) /\ SizeOf(value) = 0)

\* With strict on, instance.other = value changes nothing.
StrictIgnores(value) ==
    LET w == AfterWrite("other", value)
    IN /\ w.schemas = schemas
       /\ w.inst = inst
       /\ ProxyGet(w.schemas, "Root", w.inst, "other").value = Undefined
       /\ ~HasKey(w.schemas, w.inst, "other")

\* With strict off, instance.other = value makes other an any-typed field that reads
\* value as it was written, with nothing logged.
LooseAdmits(value) ==
    LET w == AfterWrite("other", value)
    IN /\ w.schemas.Root.fields["other"].type = "any"
       /\ ProxyGet(w.schemas, "Root", w.inst, "other").value = value
       /\ w.inst.errors = inst.errors

\* C18 as stated: with strict on, a write of the undeclared key changes nothing, the key
\* reads undefined and is not in toObject(); with strict off the key becomes an any-typed
\* field, the written value is read back uncast and is in toObject().
C18_UnknownKeyAppears ==
    \A value \in LooseValues :
        IF schemas.Root.options.strict
        THEN StrictIgnores(value)
        ELSE /\ LooseAdmits(value)
             /\ HasKey(AfterWrite("other", value).schemas, AfterWrite("other", value).inst, "other")
             /\ Snapshot(AfterWrite("other", value).schemas, AfterWrite("other", value).inst,
                         "other") = value

\* C18: with strict on, a write of the undeclared key changes nothing, the key reads
\* undefined and is not in toObject(); with strict off the key becomes an any-typed
\* field, the written value is read back uncast, and it is in toObject() unless it is
\* undefined or an empty array or object, which toObject() leaves out of every snapshot.
C18_UnknownKey ==
    \A value \in LooseValues :
        IF schemas.Root.options.strict
        THEN StrictIgnores(value)
        ELSE LET w == AfterWrite("other", value)
             IN /\ LooseAdmits(value)
                /\ HasKey(w.schemas, w.inst, "other") = ~LeftOut(value)
                /\ ~LeftOut(value) => Snapshot(w.schemas, w.inst, "other") = value

C18_Witness ==
    /\ ~schemas.Root.options.strict
    /\ last = Done("write", "other", FALSE)
    /\ Lookup(inst.obj, "other") = List(<<Str(sAnn)>>)

----------------------------------------------------------------------------
(* C19 *)

\* The values written to a date field.
Unparseable == {Str(sabc), Str(sAnn)}
NotDateLike ==
    {Bool(TRUE), Bool(FALSE), List(<<>>), List(<<Str(s1970)>>), Obj(<<>>),
     Obj(<<Entry("name", Str(sAnn))>>)}
Clearing == {Null, Undefined, Str(sEmpty)}

\* instance[index] = value is rejected: the field reads as before, the store is as
\* before, and the log has grown by exactly one error of the given code and kind.
Rejected(index, value, code, kind) ==
    LET w == AfterWrite(index, value)
        new == Appended(inst.errors, w.inst.errors)
    IN /\ ReadValue(w.schemas, w.inst, index) = ReadValue(schemas, inst, index)
       /\ w.inst.obj = inst.obj
       /\ Len(w.inst.errors) = Len(inst.errors) + 1
       /\ SubSeq(w.inst.errors, 1, Len(inst.errors)) = inst.errors
       /\ new[1].errorCode = code
       /\ new[1].errorType = kind

\* C19: a string that is not a date, written to a date field, keeps the value and logs
\* one ValidationError of code 1231; a boolean, an array or a plain object keeps the value
\* and logs one CastError of code 1105; null, undefined and '' make the field absent
\* and log nothing.
C19_DateFailureClassification ==
    \A index \in {"born", "until"} :
        /\ \A value \in Unparseable : Rejected(index, value, 1231, "ValidationError")
        /\ \A value \in NotDateLike : Rejected(index, value, 1105, "CastError")
        /\ \A value \in Clearing :
               LET w == AfterWrite(index, value)
               IN /\ ReadValue(w.schemas, w.inst, index) = Undefined
                  /\ w.inst.errors = inst.errors

C19_Witness ==
    /\ last = Done("write", "born", FALSE)
    /\ Lookup(inst.obj, "born") = DateOf(0)
    /\ Len(inst.errors) = 1
    /\ inst.errors[1].errorCode = 1231

----------------------------------------------------------------------------
(* C20 *)

\* What field index of the instance I reads, for a field clear() is to have reset.
IsReset(S, I, index) ==
    LET properties == S.Root.fields[index]
        value == ReadValue(S, I, index)
    IN CASE properties.type = "alias" -> TRUE
         [] properties.type = "array" -> value.t = "SchemaArray" /\ value.a = <<>>
         [] properties.type = "object" /\ properties.objectType # Undefined ->
                /\ value.t = "SchemaObject"
                /\ \A name \in DOMAIN S[value.factory].fields :
                       NestedRead(S, I, index, name) = Undefined
         [] properties.type = "object" -> TRUE
         [] OTHER -> value = Undefined

\* C20: in every reachable state, clear() returns and leaves every scalar field absent,
\* every array field an empty wrapper and every nested instance cleared, and toObject()
\* then gives an empty object.
C20_ClearEmptiesInstance ==
    LET c == clear(schemas, "Root", inst)
    IN /\ ~c.thrown
       /\ \A index \in DOMAIN schemas.Root.fields : IsReset(c.schemas, c.inst, index)
       /\ toObject(c.schemas, "Root", c.inst).value = Obj(<<>>)

----------------------------------------------------------------------------
(* C21 *)

\* The names getErrors() may give the field of an error of the instance: a field of the
\* instance itself, or a field n of the nested field profile as "profile.n".
ReportedNames ==
    {Text(index) : index \in DOMAIN schemas.Root.fields}
        \cup {Text(Prefixed("profile", n, 1)) : n \in DOMAIN schemas.Profile.fields}

\* C21: in every reachable state getErrors() returns the logged errors of the instance
\* first and in the order they were logged, then its missing-field errors and the errors
\* of the nested instance profile, and an error on field n of the nested instance names
\* its field "profile.n", the prefix put once.
C21_NestedErrorsPrefixedOnce ==
    LET r == getErrors(schemas, "Root", inst)
        seen == ErrorsSeen(r.schemas, r.errors)
        read == defineGetter(schemas, "Root", inst, "profile")
        nested == getErrors(read.schemas, "Profile", InstanceOf(read.value)).errors
    IN /\ Len(seen) >= Len(inst.errors) + Len(nested)
       /\ \A i \in 1..Len(inst.errors) :
              /\ seen[i].errorCode = inst.errors[i].errorCode
              /\ seen[i].errorMessage = inst.errors[i].errorMessage
       /\ \A i \in 1..Len(nested) :
              seen[Len(seen) - Len(nested) + i].errorCode = nested[i].errorCode
       /\ \A i \in (Len(inst.errors) + 1)..Len(seen) : seen[i].name \in ReportedNames

----------------------------------------------------------------------------
(* C22 *)

\* The elements of a without those that repeat an earlier one.
RECURSIVE FirstOccurrences(_)
FirstOccurrences(a) ==
    IF a = <<>> THEN <<>>
    ELSE LET front == FirstOccurrences(SubSeq(a, 1, Len(a) - 1))
             x == a[Len(a)]
         IN IF \E i \in 1..Len(front) : front[i] = x THEN front ELSE Append(front, x)

\* The elements of list L, each cast by the element descriptor of field index, without
\* repeats where the field is declared unique.
CastElements(index, L) ==
    LET properties == schemas.Root.fields[index]
        each == [i \in 1..Len(L) |-> typecast(schemas, L[i], Undefined, properties.arrayType).value]
    IN IF Truthy(properties.unique) THEN FirstOccurrences(each) ELSE each

\* C22: in every reachable state, and for every array field once it has been read, the
\* store still holds the wrapper after any assignment to the field and after clear() (a
\* wrapper is made only by the getter, and only where the store holds none, so the wrapper
\* read afterwards is the one read before); and after an assignment of a list that logs
\* no error the wrapper holds exactly the cast elements of the list, in order.
C22_ArrayWrapperKept ==
    \A index \in TypedArrayFields :
        LET read == defineGetter(schemas, "Root", inst, index)
            c == clear(read.schemas, "Root", read.inst)
        IN /\ Lookup(read.inst.obj, index).t = "SchemaArray"
           /\ Lookup(c.inst.obj, index).t = "SchemaArray"
           /\ \A value \in Inputs(index) :
                  LET w == ProxySet(read.schemas, "Root", read.inst, index, value)
                      after == Lookup(w.inst.obj, index)
                  IN /\ after.t = "SchemaArray"
                     /\ (isArray(value) /\ w.inst.errors = read.inst.errors)
                            => after.a = CastElements(index, value.a)

----------------------------------------------------------------------------
(* C23 *)

\* The plain objects and the values that are no objects assigned to the field profile.
PlainObjects ==
    {Obj(<<>>), Obj(<<Entry("name", Str(sAnn))>>), Obj(<<Entry("name", List(<<>>))>>)}
NonObjects == {Str(sAnn), Num(0), Bool(TRUE), Null, Undefined}

\* instance.profile = v, for a plain object v: the nested instance stays in place, its
\* field n holds the cast of v[n] where v has the key n and the cast accepts it, and is
\* absent otherwise, a rejected v[n] adding one error to the nested instance's log.
Repopulated(v) ==
    LET read == defineGetter(schemas, "Root", inst, "profile")
        w == ProxySet(read.schemas, "Root", read.inst, "profile", v)
        before == Lookup(read.inst.obj, "profile")
        after == Lookup(w.inst.obj, "profile")
        keys == {v.o[i].k : i \in 1..Len(v.o)}
        cast(n) == typecast(schemas, Get(v, n), Undefined, schemas.Profile.fields[n])
        rejected == {n \in keys \cap DOMAIN schemas.Profile.fields : cast(n).thrown}
    IN /\ after.t = "SchemaObject"
       /\ w.inst.errors = read.inst.errors
       /\ Len(after.errors) = Len(before.errors) + Cardinality(rejected)
       /\ \A n \in DOMAIN schemas.Profile.fields :
              NestedRead(w.schemas, w.inst, "profile", n)
                  = IF n \in keys /\ n \notin rejected THEN cast(n).value ELSE Undefined

\* instance.profile = v, for a v that is no object: one ObjectCastError on the instance,
\* and the nested instance as it was.
RejectedObject(v) ==
    LET read == defineGetter(schemas, "Root", inst, "profile")
        w == ProxySet(read.schemas, "Root", read.inst, "profile", v)
        new == Appended(read.inst.errors, w.inst.errors)
    IN /\ Len(w.inst.errors) = Len(read.inst.errors) + 1
       /\ new[1].errorCode = 1104
       /\ Lookup(w.inst.obj, "profile") = Lookup(read.inst.obj, "profile")

\* C23: in every reachable state, assigning a plain object to the nested-schema field
\* profile keeps the nested instance and replaces its content by the cast values of the
\* object, and assigning a value that is no object logs one ObjectCastError (1104) on the
\* instance and leaves the nested instance as it was.
C23_NestedAssignment ==
    /\ \A v \in PlainObjects : Repopulated(v)
    /\ \A v \in NonObjects : RejectedObject(v)

----------------------------------------------------------------------------
(* C24 *)

\* C24: in every reachable state toObject() leaves every field reading what it read
\* before the call, and a second toObject() right after it returns an equal snapshot.
C24_ToObjectLeavesInstance ==
    LET first == toObject(schemas, "Root", inst)
        second == toObject(first.schemas, "Root", first.inst)
    IN /\ \A index \in DOMAIN schemas.Root.fields :
              ReadValue(first.schemas, first.inst, index) = ReadValue(schemas, inst, index)
       /\ second.value = first.value

----------------------------------------------------------------------------
(* C25 *)

\* The schemas with no write hook set.
Unhooked(S) ==
    [F \in DOMAIN S |-> [S[F] EXCEPT !.options.onBeforeValueSet = Undefined,
                                     !.options.onValueSet = Undefined]]

\* The calls of hook in a record of calls.
CallsOf(calls, hook) == SelectSeq(calls, LAMBDA c : c.hook = hook)

\* instance[index] = value calls the write hooks as the ordering asks: none for a value
\* the typecast rejects; for a value it accepts, onBeforeValueSet once with the cast value
\* while the store is as it was, then, unless that returned false, the value is stored and
\* onValueSet is called once with it; a cancelled write changes nothing.
HooksInOrder(index, value) ==
    LET options == schemas.Root.options
        plain == Unhooked(schemas)
        cast == typecast(plain, value, ReadValue(plain, inst, index), plain.Root.fields[index])
        w == ProxySet(Quiet(schemas), "Root", inst, index, value)
        calls == w.schemas.Root.calls
        before == CallsOf(calls, "onBeforeValueSet")
        after == CallsOf(calls, "onValueSet")
        cancelled == /\ options.onBeforeValueSet # Undefined
                     /\ cast.value \in options.onBeforeValueSet.vetoes
        call(hook, stored) ==
            <<[hook |-> hook, value |-> cast.value, name |-> Text(index), stored |-> stored]>>
    IN IF cast.thrown THEN calls = <<>>
       ELSE /\ before = IF options.onBeforeValueSet = Undefined THEN <<>>
                        ELSE call("onBeforeValueSet", Lookup(inst.obj, index))
            /\ after = IF options.onValueSet = Undefined \/ cancelled THEN <<>>
                       ELSE call("onValueSet", cast.value)
            /\ calls = before \o after
            /\ cancelled => w.inst = inst
            /\ ~cancelled => Lookup(w.inst.obj, index) = cast.value

\* C25: in every reachable state and for every write to a non-alias field, the write
\* hooks are called in the order onBeforeValueSet, store, onValueSet, each once and with
\* the cast value and the field name; a write onBeforeValueSet cancels changes neither
\* the store nor the error log and does not reach onValueSet; a rejected write calls
\* neither hook.
C25_WriteHookOrdering ==
    \A index \in DOMAIN schemas.Root.fields :
        schemas.Root.fields[index].type # "alias" =>
            \A value \in Inputs(index) : HooksInOrder(index, value)

----------------------------------------------------------------------------
(* The extension specification: Child = Root.extend(extendSchema,           *)
(* extendOptions), and the custom methods and constructors of Child called  *)
(* on an instance of it.  The body of a custom function is the caller's     *)
(* code; while it executes it may call this.super, call a method of the     *)
(* instance, or return, in any order.  The base implementation that          *)
(* this.super reaches returns without calling anything.                     *)

\* Calls of custom functions nest no deeper than this.
MaxDepth == 2

\* The argument lists custom methods and constructors are called with.
MethodArguments == {<<>>, <<Str(sAnn)>>}

\* The argument lists this.super is called with.
SuperArguments == {<<>>, <<Obj(<<Entry("title", Str(sAnn))>>)>>}

Frame(function, name, arguments) == [function |-> function, name |-> name, arguments |-> arguments]

IsOverride(function) == "extension" \in DOMAIN function

\* The home of the options a function was given in.
HomeOf(function) == IF IsOverride(function) THEN function.method.home ELSE function.home

Executing == frames[Len(frames)]

\* this.super() reached method, which was applied to arguments.
Delegated(method, arguments) ==
    [op |-> "super", index |-> method.name, threw |-> FALSE, method |-> method, arguments |-> arguments]

\* instance[name](...arguments), from outside or from the body that is executing: an
\* override sets the delegation slot before it applies the extension's function.
Invoke(name, arguments) ==
    /\ Len(frames) < MaxDepth
    /\ name \in DOMAIN schemas.Child.options.methods
    /\ LET function == schemas.Child.options.methods[name]
       IN /\ frames' = Append(frames, Frame(function, name, arguments))
          /\ reserved' = IF IsOverride(function)
                         THEN [reserved EXCEPT !.super = Super(function.method, arguments)]
                         ELSE reserved
    /\ last' = Done("invoke", name, FALSE)
    /\ UNCHANGED <<schemas, inst, peer>>

\* Child.make(...arguments): a new instance, whose delegation slot is set to the default
\* constructor before the custom constructor is applied.
Make(arguments) ==
    /\ frames = <<>>
    /\ "make" \in DOMAIN schemas.Child.options.constructors
    /\ LET made == Call("SchemaObjectInstance", <<schemas, "Child", Undefined>>)
           function == schemas.Child.options.constructors.make
       IN /\ schemas' = made.schemas
          /\ inst' = made.inst
          /\ frames' = <<Frame(function, "make", arguments)>>
          /\ reserved' = [super |-> IF IsOverride(function)
                                    THEN Super(function.method, arguments)
                                    ELSE SuperDefault(schemas.Child.options.constructors.default)]
    /\ last' = Done("make", "", FALSE)
    /\ peer' = peer

\* this.super(...passed) in the body that is executing.  The slot is read through the get
\* trap; calling an absent slot is a TypeError, which ends every function on the stack
\* before any of them deletes the slot.  The slot of an override applies the base function
\* to the arguments of the override's call, the slot of a custom constructor applies the
\* default constructor to the arguments passed.
CallSuper(passed) ==
    /\ frames # <<>>
    /\ LET slot == reserved.super
           values == IF passed = <<>> THEN Undefined ELSE passed[1]
           populated == Call("populate", <<schemas, "Child", inst, values>>)
       IN IF slot = Undefined
          THEN /\ frames' = <<>>
               /\ last' = Done("super", Executing.name, TRUE)
               /\ UNCHANGED <<schemas, inst, reserved>>
          ELSE IF "arguments" \notin DOMAIN slot
          THEN /\ schemas' = populated.schemas
               /\ inst' = populated.inst
               /\ last' = Delegated(slot.method, passed)
               /\ UNCHANGED <<frames, reserved>>
          ELSE /\ last' = Delegated(slot.method, slot.arguments)
               /\ UNCHANGED <<schemas, inst, frames, reserved>>
    /\ peer' = peer

\* The body that is executing returns: an override deletes the slot, and so does the
\* factory function of a custom constructor.
ReturnFrom ==
    /\ frames # <<>>
    /\ frames' = SubSeq(frames, 1, Len(frames) - 1)
    /\ reserved' = IF IsOverride(Executing.function) \/ HomeOf(Executing.function) = "constructors"
                   THEN NoReserved
                   ELSE reserved
    /\ last' = Done("return", Executing.name, FALSE)
    /\ UNCHANGED <<schemas, inst, peer>>

InitExtend ==
    \E extendSchema \in ExtendSchemas : \E extendOptions \in ExtendOptions :
        LET S == extend([Root |-> BaseSchema, Profile |-> ProfileSchema], "Root", "Child",
                        extendSchema, extendOptions)
            r == Call("SchemaObjectInstance", <<S, "Child", Obj(<<>>)>>)
        IN /\ schemas = r.schemas
           /\ inst = r.inst
           /\ last = Done("construct", "", FALSE)
           /\ peer = Undefined
           /\ reserved = NoReserved
           /\ frames = <<>>

NextExtend ==
    \/ \E name \in {"greet", "describe", "plain", "extra"} : \E arguments \in MethodArguments :
           Invoke(name, arguments)
    \/ \E arguments \in MethodArguments : Make(arguments)
    \/ \E passed \in SuperArguments : CallSuper(passed)
    \/ ReturnFrom

SpecExtend == InitExtend /\ [][NextExtend]_vars

\* C27: while the function executing on the instance is an override, this.super is the
\* base factory's function of the same name applied to the arguments of the override's
\* call; the slot is absent when no custom function is executing; and the base factory's
\* schema and options are those it was made with.
C27_SuperDelegates ==
    /\ frames # <<>> /\ IsOverride(Executing.function) =>
           reserved.super = Super(BaseSchema.options[HomeOf(Executing.function)][Executing.name],
                                  Executing.arguments)
    /\ frames = <<>> => reserved.super = Undefined
    /\ schemas.Root = BaseSchema

----------------------------------------------------------------------------
(* concat on a Typed Array Wrapper.                                         *)

\* The argument lists of concat on the wrapper of field index: plain lists and wrappers.
ConcatInputs(index) ==
    CASE index = "words" -> {<<>>, <<List(<<Str(shello)>>)>>,
                             <<SchemaArrayOf(<<Str(sAnn)>>), List(<<Str(shello), Str(sAnn)>>)>>,
                             <<List(<<Str(sAnn), Str(stoolong)>>)>>}
      [] index = "nums" -> {<<List(<<Num(7), Str(s15)>>)>>,
                            <<SchemaArrayOf(<<Num(7)>>), List(<<Num(15), Num(7)>>)>>,
                            <<List(<<Str(sabc)>>)>>}
      [] OTHER -> {<<>>}

\* The elements the arguments contribute, in order.
RECURSIVE Flattened(_)
Flattened(args) ==
    IF args = <<>> THEN <<>> ELSE Elements(Head(args)) \o Flattened(Tail(args))

\* The wrapper after the values were pushed into it one at a time.
RECURSIVE PushedInTurn(_, _, _)
PushedInTurn(array, values, properties) ==
    IF values = <<>> THEN array
    ELSE PushedInTurn(push(schemas, array, <<Head(values)>>, properties).array, Tail(values), properties)

\* C26: concat returns a new wrapper and leaves the receiver as it was; the new wrapper
\* is what pushing the receiver's elements and then the elements of each argument, one at
\* a time, into an empty wrapper of the same element descriptor gives.
C26_ConcatRepushes ==
    \A index \in {"words", "nums"} :
        \A args \in ConcatInputs(index) :
            LET receiver == Lookup(inst.obj, index)
                properties == schemas.Root.fields[index]
                r == concat(schemas, receiver, args, properties)
            IN receiver.t = "SchemaArray" =>
                   /\ ~r.thrown
                   /\ r.array.t = "SchemaArray"
                   /\ r.receiver = receiver
                   /\ Lookup(inst.obj, index) = receiver
                   /\ r.array = PushedInTurn(SchemaArrayOf(<<>>), receiver.a \o Flattened(args),
                                             properties)

----------------------------------------------------------------------------
(* C28 *)

\* What the instance I shows: the value read from each field, and the error log.
Shown(S, I) ==
    [reads |-> [index \in DOMAIN S.Root.fields |-> ReadValue(S, I, index)], errors |-> I.errors]

\* C28: in every reachable state getErrors() leaves the values read from the fields, the
\* error log and the Field Descriptors as they were; a second getErrors() right after it
\* returns a list of the same length with the same codes, messages and field names; and
\* a field write after getErrors() leaves the instance as the same write without it does.
C28_GetErrorsIsPure ==
    LET first == getErrors(schemas, "Root", inst)
        second == getErrors(first.schemas, "Root", first.inst)
    IN /\ Shown(first.schemas, first.inst) = Shown(schemas, inst)
       /\ first.schemas = schemas
       /\ ErrorsSeen(second.schemas, second.errors) = ErrorsSeen(first.schemas, first.errors)
       /\ \A index \in WriteKeys : \A value \in Inputs(index) :
              LET after == ProxySet(first.schemas, "Root", first.inst, index, value)
                  without == ProxySet(schemas, "Root", inst, index, value)
              IN Shown(after.schemas, after.inst) = Shown(without.schemas, without.inst)

----------------------------------------------------------------------------
(* C29 *)

\* C29: in every reachable state, assigning to a field that is not an alias the value
\* read from it leaves toObject() as it was and appends no error.
C29_SelfAssignment ==
    \A index \in {i \in DOMAIN schemas.Root.fields : schemas.Root.fields[i].type # "alias"} :
        LET r == assignSelf(schemas, "Root", inst, index)
        IN /\ toObject(r.schemas, "Root", r.inst).value = toObject(schemas, "Root", inst).value
           /\ r.inst.errors = inst.errors

----------------------------------------------------------------------------
(* C30 *)

\* C30: in every reachable state clear() does not throw, and the error log after it is
\* the error log before it.
C30_ClearNeverFails ==
    LET c == clear(schemas, "Root", inst)
    IN /\ ~c.thrown
       /\ c.inst.errors = inst.errors
====
